---- MODULE Spec2Model ----
(***************************************************************************)
(* A model of stream_membership.model.ModelComponent: the naming codec,    *)
(* construction, the dependency resolver, sampling, distribution           *)
(* construction and registration against data.                             *)
(*                                                                         *)
(* Python strings are sequences of one-character strings, so that joining  *)
(* and splitting on the separators ":" and "-" are computed, not assumed.  *)
(* A CoordinateKey is a record [tuple, names]: a plain string s is         *)
(* [tuple |-> FALSE, names |-> <<s>>], a Python tuple (s1, ..., sn) is     *)
(* [tuple |-> TRUE, names |-> <<s1, ..., sn>>].  An optional value is a    *)
(* sequence of length 0 (None) or 1.                                       *)
(***************************************************************************)
EXTENDS Integers, Sequences, FiniteSets, TLC

VARIABLES
    cpc,        \* codec run: "idle", "start", "encoded", "decoded"
    cname,      \* self.name of the component whose codec is exercised
    ckey,       \* the coord_name argument of _make_numpyro_name
    carg,       \* the arg_name argument (optional)
    encoded,    \* the string returned by _make_numpyro_name
    decoded,    \* the result of _expand_numpyro_name: a triple, or an IndexError
    pc,                  \* position of the component's life: "new", "ready", ...
    op,                  \* the method called on the constructed component
    name,                \* ModelComponent.name
    coord_distributions, \* the keys of the dict, in declaration order
    coord_parameters,    \* dict: CoordinateKey -> dict: argument -> parameter spec
    default_x_coord,     \* optional string
    conditional_data,    \* optional dict: CoordinateKey -> dict: argument -> name
    coord_names,         \* ModelComponent._coord_names (optional list)
    sample_order,        \* local of _sample_order
    pending,             \* local conditional_data of _sample_order
    round,               \* iterations of "for _ in range(128)" started so far
    pars,                \* the pars argument of make_dists / sample (optional dict)
    dists,               \* the dict returned by make_dists: key -> constructor kwargs
    sites,               \* the sites registered with numpyro during the current call
    prev_sites,          \* the names registered by the previous make_dists call (optional)
    calls,               \* number of make_dists calls made so far
    rng_keys,            \* sample: keys = jax.random.split(key, n)
    samples,             \* sample: the dict of samples drawn so far
    draws,               \* sample: the Distribution.sample calls made, in order
    key_uses,            \* sample: every split of and draw with a random key, in order
    result,              \* sample: the returned dict (optional)
    data,                \* __call__: the data dict
    extra_prior,         \* the value extra_ln_prior returns for this component
    x_coord_name,        \* evaluate_on_2d_grids: the x_coord_name argument (optional)
    grid_coord_names,    \* evaluate_on_2d_grids: the grid_coord_names argument (optional)
    grids,               \* evaluate_on_2d_grids: the dict of 1D grids
    log_probs,           \* evaluate_on_2d_grids: the keys whose log_prob was evaluated, in order
    x_joint,             \* evaluate_on_2d_grids: the key bound to x_joint_name_pair (optional)
    evals,               \* evaluate_on_2d_grids: the returned dict pair -> surface (optional)
    components,          \* ComponentMixtureModel.components: the components' names
    flat_pars,           \* the flat mapping site name -> value passed to the mixture
    expanded,            \* the dict mixture.expand_numpyro_params returns (optional)
    terms,               \* the dict mixture.evaluate_on_2d_grids returns (optional)
    prev_order,          \* the list the previous _sample_order call returned (optional)
    members,             \* ConcatenatedConstraints: the member constraints with their sizes
    batch,               \* the vectors the concatenated constraint is called with
    verdicts,            \* the booleans the call returns, one per vector (optional)
    locs,                \* TruncatedGridGMM: component locations, K rows of D entries
    scales,              \* the scale of every component and dimension
    low,                 \* lower truncation bound of each dimension
    high,                \* upper truncation bound of each dimension
    masses,              \* the retained mass computed for each k and d (optional)
    log_diff_tail_probs  \* _log_diff_tail_probs, one entry per component (optional)

codecVars == <<cpc, cname, ckey, carg, encoded, decoded>>

fieldVars == <<name, coord_distributions, coord_parameters, default_x_coord,
               conditional_data, coord_names>>

orderVars == <<sample_order, pending, round>>

distVars == <<pars, dists, sites, prev_sites, calls>>

sampleVars == <<rng_keys, samples, draws, key_uses, result>>

callVars == <<data, extra_prior>>

gridVars == <<x_coord_name, grid_coord_names, grids, log_probs, x_joint, evals>>

mixVars == <<components, flat_pars, expanded, terms>>

frameVars == <<prev_order>>

concatVars == <<members, batch, verdicts>>

gmmVars == <<locs, scales, low, high, masses, log_diff_tail_probs>>

distrVars == <<concatVars, gmmVars>>

otherVars == <<gridVars, mixVars, frameVars, distrVars>>

vars == <<cpc, cname, ckey, carg, encoded, decoded, pc, op, name,
          coord_distributions, coord_parameters, default_x_coord,
          conditional_data, coord_names, sample_order, pending, round,
          pars, dists, sites, prev_sites, calls,
          rng_keys, samples, draws, key_uses, result, data, extra_prior,
          otherVars>>

-----------------------------------------------------------------------------
(* Bounds of the model *)

MaxNameLen == 1
MaxTuple == 2
MaxKeys == 3
MaxDistKeys == 2
MaxCalls == 2
MaxPairs == 2
MaxFlat == 3

\* "for _ in range(128)" of _sample_order
MaxRounds == 128

-----------------------------------------------------------------------------
(* Strings and coordinate keys *)

Chars == {"a", ":", "-"}

SeqsUpTo(S, n) == UNION {[1..m -> S] : m \in 0..n}

Strings == SeqsUpTo(Chars, MaxNameLen)

StrKey(s) == [tuple |-> FALSE, names |-> <<s>>]
TupleKey(ns) == [tuple |-> TRUE, names |-> ns]

CodecKeys == {StrKey(s) : s \in Strings} \cup {TupleKey(ns) : ns \in SeqsUpTo(Strings, MaxTuple)}

None == <<>>
Some(v) == <<v>>

\* s contains neither reserved separator
NoSeparator(s) == \A i \in 1..Len(s) : s[i] \notin {":", "-"}

\* str.join
RECURSIVE Join(_, _)
Join(parts, sep) ==
    IF Len(parts) = 0 THEN <<>>
    ELSE IF Len(parts) = 1 THEN parts[1]
    ELSE parts[1] \o <<sep>> \o Join(Tail(parts), sep)

\* str.split(sep)
RECURSIVE SplitFrom(_, _, _, _)
SplitFrom(s, sep, i, cur) ==
    IF i > Len(s) THEN <<cur>>
    ELSE IF s[i] = sep THEN <<cur>> \o SplitFrom(s, sep, i + 1, <<>>)
    ELSE SplitFrom(s, sep, i + 1, Append(cur, s[i]))

Split(s, sep) == SplitFrom(s, sep, 1, <<>>)

Contains(s, ch) == \E i \in 1..Len(s) : s[i] = ch

-----------------------------------------------------------------------------
(* The naming codec *)

\* the coordinate segment: a tuple is joined with "-", a string is kept
CoordSegment(coord_name) ==
    IF coord_name.tuple THEN Join(coord_name.names, "-") ELSE coord_name.names[1]

make_numpyro_name(self_name, coord_name, arg_name) ==
    LET prefix == self_name \o <<":">> \o CoordSegment(coord_name)
    IN  IF arg_name = None THEN prefix ELSE prefix \o <<":">> \o arg_name[1]

\* a mutation: every coordinate segment that could be split is decoded as a tuple
DecodeCoordAlwaysTuple(bit) == TupleKey(Split(bit, "-"))

\* bits[1] of _expand_numpyro_name: a tuple when the segment contains "-"
DecodeCoord(bit) ==
    IF Contains(bit, "-") THEN TupleKey(Split(bit, "-")) ELSE StrKey(bit)

expand_numpyro_name(numpyro_name) ==
    LET bits == Split(numpyro_name, ":")
    IN  IF Len(bits) < 3 THEN [error |-> "IndexError"]
        ELSE [error |-> "none", name |-> bits[1], coord |-> DecodeCoord(bits[2]),
              arg |-> bits[3]]

ComponentIdle ==
    /\ pc = "idle" /\ op = "none" /\ name = <<>> /\ coord_distributions = <<>>
    /\ coord_parameters = <<>> /\ default_x_coord = None
    /\ conditional_data = None /\ coord_names = None
    /\ sample_order = <<>> /\ pending = <<>> /\ round = 0

DistIdle ==
    /\ pars = None /\ dists = None /\ sites = <<>> /\ prev_sites = None /\ calls = 0
    /\ rng_keys = <<>> /\ samples = <<>> /\ draws = <<>> /\ key_uses = <<>>
    /\ result = None

CallIdle == data = <<>> /\ extra_prior = 0

GridIdle ==
    /\ x_coord_name = <<>> /\ grid_coord_names = <<>> /\ grids = <<>>
    /\ log_probs = <<>> /\ x_joint = <<>> /\ evals = <<>>

MixIdle == components = <<>> /\ flat_pars = <<>> /\ expanded = <<>> /\ terms = <<>>

FrameIdle == prev_order = <<>>

ConcatIdle == members = <<>> /\ batch = <<>> /\ verdicts = <<>>

GmmIdle ==
    /\ locs = <<>> /\ scales = 0 /\ low = <<>> /\ high = <<>>
    /\ masses = <<>> /\ log_diff_tail_probs = <<>>

DistrIdle == ConcatIdle /\ GmmIdle

OthersIdle == GridIdle /\ MixIdle /\ FrameIdle /\ DistrIdle

CodecIdle ==
    /\ cpc = "idle" /\ cname = <<>> /\ ckey = StrKey(<<>>) /\ carg = None
    /\ encoded = <<>> /\ decoded = [error |-> "unset"]

CodecInit ==
    /\ ComponentIdle
    /\ DistIdle
    /\ CallIdle
    /\ OthersIdle
    /\ cpc = "start"
    /\ cname \in Strings
    /\ ckey \in CodecKeys
    /\ carg \in {None} \cup {Some(s) : s \in Strings}
    /\ encoded = <<>>
    /\ decoded = [error |-> "unset"]

Encode ==
    /\ cpc = "start"
    /\ encoded' = make_numpyro_name(cname, ckey, carg)
    /\ cpc' = "encoded"
    /\ UNCHANGED <<cname, ckey, carg, decoded>>
    /\ UNCHANGED <<pc, op>>
    /\ UNCHANGED fieldVars
    /\ UNCHANGED orderVars
    /\ UNCHANGED distVars
    /\ UNCHANGED sampleVars
    /\ UNCHANGED callVars
    /\ UNCHANGED otherVars

Decode ==
    /\ cpc = "encoded"
    /\ decoded' = expand_numpyro_name(encoded)
    /\ cpc' = "decoded"
    /\ UNCHANGED <<cname, ckey, carg, encoded>>
    /\ UNCHANGED <<pc, op>>
    /\ UNCHANGED fieldVars
    /\ UNCHANGED orderVars
    /\ UNCHANGED distVars
    /\ UNCHANGED sampleVars
    /\ UNCHANGED callVars
    /\ UNCHANGED otherVars

CodecNext == Encode \/ Decode

-----------------------------------------------------------------------------
(* Python dicts: sequences of [key, val] entries in insertion order *)

HasKey(d, k) == \E i \in 1..Len(d) : d[i].key = k
Lookup(d, k) == d[CHOOSE i \in 1..Len(d) : d[i].key = k].val
GetOr(d, k, default) == IF HasKey(d, k) THEN Lookup(d, k) ELSE default
KeySet(d) == {d[i].key : i \in 1..Len(d)}
ValueSet(d) == {d[i].val : i \in 1..Len(d)}
Range(s) == {s[i] : i \in 1..Len(s)}
RemoveAt(s, i) == [j \in 1..(Len(s) - 1) |-> IF j < i THEN s[j] ELSE s[j + 1]]
Reverse(s) == [j \in 1..Len(s) |-> s[Len(s) + 1 - j]]
IsInjective(s) == \A i, j \in 1..Len(s) : s[i] = s[j] => i = j

-----------------------------------------------------------------------------
(* The components the model constructs *)

CoordNames == {<<"a">>, <<"b">>, <<"c">>}

Keys == {StrKey(n) : n \in CoordNames} \cup {TupleKey(<< <<"a">>, <<"b">> >>)}

NamesOf(k) == Range(k.names)

\* coord_distributions: distinct keys over pairwise disjoint coordinate names
Declarations ==
    {d \in SeqsUpTo(Keys, MaxKeys) :
        /\ Len(d) >= 1
        /\ \A i, j \in 1..Len(d) : i # j => NamesOf(d[i]) \cap NamesOf(d[j]) = {}}

ArgX == <<"x">>
ArgY == <<"y">>

\* the inner dicts of conditional_data: argument -> coordinate name
CondMaps ==
    {<<>>}
    \cup {<<[key |-> ArgX, val |-> n]>> : n \in CoordNames}
    \cup {<<[key |-> ArgX, val |-> <<"a">>], [key |-> ArgY, val |-> n]>> : n \in {<<"b">>, <<"c">>}}
    \cup {<<[key |-> ArgX, val |-> <<"b">>], [key |-> ArgY, val |-> <<"c">>]>>}

RECURSIVE CondDictFrom(_, _, _)
CondDictFrom(decl, f, i) ==
    IF i > Len(decl) THEN <<>>
    ELSE (IF f[i] = None THEN <<>> ELSE <<[key |-> decl[i], val |-> f[i][1]]>>)
         \o CondDictFrom(decl, f, i + 1)

\* conditional_data dicts over the declared keys, inserted in declaration
\* order or in the reverse of it
CondDicts(decl) ==
    LET choices == [1..Len(decl) -> {None} \cup {Some(m) : m \in CondMaps}]
        forward == {CondDictFrom(decl, f, 1) : f \in choices}
    IN  forward \cup {Reverse(d) : d \in forward}

NoParameters(decl) == [i \in 1..Len(decl) |-> [key |-> decl[i], val |-> <<>>]]

-----------------------------------------------------------------------------
(* ModelComponent.__post_init__ *)

\* self.conditional_data once __post_init__ has replaced None by {}
CondData == conditional_data[1]

FirstCoordName(decl) == decl[1].names[1]

RECURSIVE FlattenNames(_)
FlattenNames(decl) ==
    IF Len(decl) = 0 THEN <<>> ELSE decl[1].names \o FlattenNames(Tail(decl))

\* _pairs: (coord_name, val) for every declared key and every value of its
\* conditional_data entry; the value is a plain string
CtorPairs(decl, cd) ==
    UNION {{<<decl[i], StrKey(v)>> : v \in ValueSet(GetOr(cd, decl[i], <<>>))} :
              i \in 1..Len(decl)}

\* "_pair[::-1] in _pairs" for some pair
SomePairReversed(pairs) == \E p \in pairs : <<p[2], p[1]>> \in pairs

PostInit ==
    /\ pc = "new"
    /\ IF Range(coord_distributions) # KeySet(coord_parameters)
       THEN /\ pc' = "error_keys"
            /\ UNCHANGED <<default_x_coord, coord_names, conditional_data>>
       ELSE LET cd == IF conditional_data = None THEN <<>> ELSE conditional_data[1]
            IN  /\ default_x_coord' =
                      IF default_x_coord = None
                      THEN Some(FirstCoordName(coord_distributions))
                      ELSE default_x_coord
                /\ coord_names' = Some(FlattenNames(coord_distributions))
                /\ conditional_data' = Some(cd)
                /\ pc' = IF SomePairReversed(CtorPairs(coord_distributions, cd))
                         THEN "error_circular" ELSE "ready"
    /\ UNCHANGED <<op, name, coord_distributions, coord_parameters>>
    /\ UNCHANGED orderVars
    /\ UNCHANGED distVars
    /\ UNCHANGED sampleVars
    /\ UNCHANGED callVars
    /\ UNCHANGED codecVars
    /\ UNCHANGED otherVars

-----------------------------------------------------------------------------
(* ModelComponent._sample_order *)

\* {k: list(set(v.values()))}
DependencyLists(cd) == [i \in 1..Len(cd) |-> [key |-> cd[i].key, val |-> ValueSet(cd[i].val)]]

\* keys that are not in conditional_data, in declaration order
Unconditioned(decl, cd) == SelectSeq(decl, LAMBDA k : ~HasKey(cd, k))

\* a mutation: a dependency counts as met when it is a declared key
AllDeclared(dependencies, order) ==
    \A dep \in dependencies : StrKey(dep) \in Range(coord_distributions)

\* all(dep in sample_order for dep in dependencies)
AllPlaced(dependencies, order) ==
    \A dep \in dependencies : StrKey(dep) \in Range(order)

\* the first entry of the local dict whose dependencies are all placed (0: none)
FirstReady(local, order) ==
    IF \E i \in 1..Len(local) : AllPlaced(local[i].val, order)
    THEN CHOOSE i \in 1..Len(local) :
            /\ AllPlaced(local[i].val, order)
            /\ \A j \in 1..(i - 1) : ~AllPlaced(local[j].val, order)
    ELSE 0

\* lines 522-532: the locals before the relaxation loop
EnterSampleOrder ==
    /\ sample_order' = Unconditioned(coord_distributions, CondData)
    /\ pending' = DependencyLists(CondData)
    /\ round' = 0

CallSampleOrder ==
    /\ pc = "ready"
    /\ op' = "_sample_order"
    /\ EnterSampleOrder
    /\ pc' = "ordering"
    /\ UNCHANGED fieldVars
    /\ UNCHANGED distVars
    /\ UNCHANGED sampleVars
    /\ UNCHANGED callVars
    /\ UNCHANGED codecVars
    /\ UNCHANGED otherVars

\* one iteration of "for _ in range(128)"
RelaxRound ==
    /\ pc = "ordering"
    /\ round < MaxRounds
    /\ LET i == FirstReady(pending, sample_order)
           placed == IF i = 0 THEN sample_order ELSE Append(sample_order, pending[i].key)
           left == IF i = 0 THEN pending ELSE RemoveAt(pending, i)
       IN  /\ sample_order' = placed
           /\ pending' = left
           /\ round' = round + 1
           /\ pc' = IF Len(left) = 0 THEN "ordered" ELSE "ordering"
    /\ UNCHANGED op
    /\ UNCHANGED fieldVars
    /\ UNCHANGED distVars
    /\ UNCHANGED sampleVars
    /\ UNCHANGED callVars
    /\ UNCHANGED codecVars
    /\ UNCHANGED otherVars

\* the else clause of the for loop: the 128 iterations ran without a break
OrderExhausted ==
    /\ pc = "ordering"
    /\ round = MaxRounds
    /\ pc' = "error_order"
    /\ UNCHANGED op
    /\ UNCHANGED orderVars
    /\ UNCHANGED fieldVars
    /\ UNCHANGED distVars
    /\ UNCHANGED sampleVars
    /\ UNCHANGED callVars
    /\ UNCHANGED codecVars
    /\ UNCHANGED otherVars

-----------------------------------------------------------------------------
(* ModelComponent.make_dists *)

\* A parameter spec is [wrapped, kind, lit]: kind "literal" carries the value
\* lit; kinds "dict" and "dist" are the two drawable forms (a dict of
\* numpyro.sample keywords, a dist.Distribution); wrapped says the spec was
\* declared as a (wrapper, value) tuple.
Literal(v) == [wrapped |-> FALSE, kind |-> "literal", lit |-> v]
Prior(kind) == [wrapped |-> FALSE, kind |-> kind, lit |-> 0]
WrappedSpec(spec) == [spec EXCEPT !.wrapped = TRUE]

\* the one wrapper function the declared tuples carry; it is not the identity
Wrapper(v) == v + 10

\* the values a site may draw
DrawValues == {0, 1}
\* the values n successive sites draw: all alike, or alternating
Draws(n) ==
    {[i \in 1..n |-> v] : v \in DrawValues}
    \cup {[i \in 1..n |-> (i + o) % 2] : o \in DrawValues}
\* the value every override in pars carries
OverrideValue == 5
\* the value every literal spec carries
LiteralValue == 7

ArgLoc == <<"l">>
ArgScale == <<"s">>

ParamDicts ==
    {<<>>,
     <<[key |-> ArgLoc, val |-> Literal(LiteralValue)]>>,
     <<[key |-> ArgLoc, val |-> WrappedSpec(Literal(LiteralValue))]>>,
     <<[key |-> ArgLoc, val |-> Prior("dict")]>>,
     <<[key |-> ArgLoc, val |-> Prior("dist")],
       [key |-> ArgScale, val |-> WrappedSpec(Prior("dist"))]>>}

\* coord_parameters dicts for a declaration: the declared keys in declaration
\* order or in the reverse of it
ParamsFor(decl) ==
    LET forward == {[i \in 1..Len(decl) |-> [key |-> decl[i], val |-> f[i]]] :
                        f \in [1..Len(decl) -> ParamDicts]}
    IN  forward \cup {Reverse(d) : d \in forward}

\* pars dicts: per declared key no entry, an override of the first declared
\* argument, or an override of every declared argument
OverridesOf(params) ==
    {<<>>}
    \cup {[j \in 1..n |-> [key |-> params[j].key, val |-> OverrideValue]] :
            n \in {1, Len(params)} \cap (1..Len(params))}

RECURSIVE ParsFrom(_, _, _)
ParsFrom(decl, f, i) ==
    IF i > Len(decl) THEN <<>>
    ELSE (IF f[i] = None THEN <<>> ELSE <<[key |-> decl[i], val |-> f[i][1]]>>)
         \o ParsFrom(decl, f, i + 1)

ParsFor(decl, params) ==
    {ParsFrom(decl, f, 1) :
        f \in {g \in [1..Len(decl) -> {None} \cup {Some(o) : o \in UNION {OverridesOf(ps) : ps \in ParamDicts}}] :
                  \A i \in 1..Len(decl) :
                      g[i] = None \/ g[i][1] \in OverridesOf(Lookup(params, decl[i]))}}

\* the (coordinate, argument, spec) triples in the order the two loops visit
\* them: coord_distributions.items(), then coord_parameters.get(coord).items()
RECURSIVE ArgList(_, _)
ArgList(decl, params) ==
    IF Len(decl) = 0 THEN <<>>
    ELSE LET ps == GetOr(params, decl[1], <<>>)
         IN  [j \in 1..Len(ps) |-> [coord |-> decl[1], arg |-> ps[j].key, spec |-> ps[j].val]]
             \o ArgList(Tail(decl), params)

\* a mutation: the loops follow coord_parameters instead of coord_distributions
ArgListByParameters(decl, params) ==
    ArgList([i \in 1..Len(params) |-> params[i].key], params)

\* the loop order of make_dists
VisitOrder(decl, params) == ArgList(decl, params)

\* "arg in pars.get(coord_name, {})"
Overridden(P, coord, arg) == HasKey(GetOr(P, coord, <<>>), arg)

Drawable(spec) == spec.kind \in {"dict", "dist"}

\* the argument reaches one of the two numpyro.sample branches
Registers(P, a) == ~Overridden(P, a.coord, a.arg) /\ Drawable(a.spec)

\* a mutation: the declared literal or draw wins over the override
ResolveSpecFirst(P, a, drawn) ==
    IF Drawable(a.spec) THEN drawn
    ELSE a.spec.lit

\* lines 491-502: par by priority
Resolve(P, a, drawn) ==
    IF Overridden(P, a.coord, a.arg) THEN Lookup(Lookup(P, a.coord), a.arg)
    ELSE IF Drawable(a.spec) THEN drawn
    ELSE a.spec.lit

\* lines 486-489 and 503: wrapper(par)
ApplyWrapper(spec, par) == IF spec.wrapped THEN Wrapper(par) ELSE par

Indices(n) == [i \in 1..n |-> i]

\* make_dists(pars) with draw[n] the value numpyro.sample returns at the n-th
\* site it registers: the dict of constructor kwargs and the registered sites
make_dists(P, draw) ==
    LET args == VisitOrder(coord_distributions, coord_parameters)
        siteNo(i) == Cardinality({j \in 1..i : Registers(P, args[j])})
        kwarg(i) == [key |-> args[i].arg,
                     val |-> ApplyWrapper(args[i].spec,
                                          Resolve(P, args[i], draw[siteNo(i)]))]
        of(k) == SelectSeq(Indices(Len(args)), LAMBDA i : args[i].coord = k)
        registering == SelectSeq(Indices(Len(args)), LAMBDA i : Registers(P, args[i]))
    IN  [dists |-> [n \in 1..Len(coord_distributions) |->
                      [key |-> coord_distributions[n],
                       val |-> [j \in 1..Len(of(coord_distributions[n])) |->
                                  kwarg(of(coord_distributions[n])[j])]]],
         sites |-> [n \in 1..Len(registering) |->
                      [name |-> make_numpyro_name(name, args[registering[n]].coord,
                                                  Some(args[registering[n]].arg)),
                       value |-> draw[n],
                       observed |-> FALSE]]]

\* the number of sites make_dists(P) registers
NumSites(P) ==
    LET args == VisitOrder(coord_distributions, coord_parameters)
    IN  Cardinality({j \in 1..Len(args) : Registers(P, args[j])})

\* "if pars is None: pars = {}"
ParsOrEmpty == IF pars = None THEN <<>> ELSE pars[1]

SiteNames(ss) == [i \in 1..Len(ss) |-> ss[i].name]

\* a call of make_dists(pars) on the constructed component
CallMakeDists ==
    /\ pc \in {"ready", "made"}
    /\ calls < MaxCalls
    /\ \E draw \in Draws(NumSites(ParsOrEmpty)) :
          LET r == make_dists(ParsOrEmpty, draw)
          IN  /\ dists' = Some(r.dists)
              /\ sites' = r.sites
    /\ prev_sites' = IF calls = 0 THEN None ELSE Some(SiteNames(sites))
    /\ calls' = calls + 1
    /\ op' = "make_dists"
    /\ pc' = "made"
    /\ UNCHANGED pars
    /\ UNCHANGED fieldVars
    /\ UNCHANGED orderVars
    /\ UNCHANGED sampleVars
    /\ UNCHANGED callVars
    /\ UNCHANGED codecVars
    /\ UNCHANGED otherVars

NewComponent ==
    /\ pc = "new"
    /\ op = "none"
    /\ name = <<"s">>
    /\ coord_distributions \in Declarations
    /\ default_x_coord = None
    /\ conditional_data \in {None} \cup {Some(d) : d \in CondDicts(coord_distributions)}
    /\ coord_names = None
    /\ sample_order = <<>> /\ pending = <<>> /\ round = 0

OrderInit ==
    /\ CodecIdle
    /\ OthersIdle
    /\ DistIdle
    /\ CallIdle
    /\ NewComponent
    /\ coord_parameters = NoParameters(coord_distributions)

-----------------------------------------------------------------------------
(* ModelComponent._make_conditional_data and ModelComponent.sample *)

\* data.get(val, None) for every argument of every declared key; the dict d
\* passed as data has CoordinateKeys as keys, val is a plain string
make_conditional_data(d) ==
    [n \in 1..Len(coord_distributions) |->
        LET data_map == GetOr(CondData, coord_distributions[n], <<>>)
        IN  [key |-> coord_distributions[n],
             val |-> [j \in 1..Len(data_map) |->
                        [key |-> data_map[j].key,
                         val |-> IF HasKey(d, StrKey(data_map[j].val))
                                 THEN Some(Lookup(d, StrKey(data_map[j].val)))
                                 ELSE None]]]]

\* A random key is the path of split indices that derives it from the key the
\* caller passed (the empty path); two keys are equal exactly when they are
\* derived the same way.
RootKey == <<>>

\* jax.random.split(key, n)
SplitKey(key, n) == [i \in 1..n |-> Append(key, <<n, i - 1>>)]

\* numpyro.handlers.seed: the key the handler carries when it reaches its
\* n-th site (it splits the carried key in two at every site, keeps the first
\* half and gives the second to the site)
RECURSIVE SeedCarried(_, _)
SeedCarried(key, n) == IF n = 1 THEN key ELSE SplitKey(SeedCarried(key, n - 1), 2)[1]

SeedSiteKey(key, n) == SplitKey(SeedCarried(key, n), 2)[2]

\* the random-key operations of seed(self.make_dists, key)() for nsites sites
RECURSIVE SeedUses(_, _, _)
SeedUses(key, ss, n) ==
    IF n > Len(ss) THEN <<>>
    ELSE <<[consumer |-> "seed", use |-> "split", key |-> SeedCarried(key, n)],
           [consumer |-> "prior", use |-> "draw", key |-> SeedSiteKey(key, n)]>>
         \o SeedUses(key, ss, n + 1)

\* a mutation: the coordinates are drawn in declaration order
DeclarationOrder(order) == coord_distributions

\* the first argument of zip(): the order the coordinates are drawn in
DrawOrder(order) == order

\* lines 601-609: the distributions, the per-coordinate keys, and the start of
\* the _sample_order call inside zip()
CallSample ==
    /\ pc = "ready"
    /\ op' = "sample"
    /\ \E draw \in Draws(NumSites(ParsOrEmpty)) :
          LET r == make_dists(ParsOrEmpty, draw)
          IN  /\ dists' = Some(r.dists)
              /\ sites' = r.sites
              /\ key_uses' =
                    (IF pars = None THEN SeedUses(RootKey, r.sites, 1) ELSE <<>>)
                    \o <<[consumer |-> "sample", use |-> "split", key |-> RootKey]>>
    /\ rng_keys' = SplitKey(RootKey, Len(coord_distributions))
    /\ samples' = <<>>
    /\ draws' = <<>>
    /\ EnterSampleOrder
    /\ pc' = "ordering"
    /\ calls' = calls + 1
    /\ UNCHANGED <<pars, prev_sites, result>>
    /\ UNCHANGED fieldVars
    /\ UNCHANGED callVars
    /\ UNCHANGED codecVars
    /\ UNCHANGED otherVars

\* one iteration of the loop over zip(self._sample_order(), keys, strict=True)
DrawCoordinate ==
    /\ pc = "ordered"
    /\ op = "sample"
    /\ Len(draws) < Len(DrawOrder(sample_order))
    /\ Len(draws) < Len(rng_keys)
    /\ LET i == Len(draws) + 1
           coord_name == DrawOrder(sample_order)[i]
           extra_data == make_conditional_data(samples)
       IN  IF ~HasKey(extra_data, coord_name)
           THEN /\ pc' = "error_key"
                /\ UNCHANGED <<samples, draws, key_uses>>
           ELSE /\ draws' = Append(draws,
                           [coord |-> coord_name,
                            rng |-> rng_keys[i],
                            shaped |-> Len(Lookup(extra_data, coord_name)) = 0,
                            extra |-> Lookup(extra_data, coord_name)])
                /\ samples' = Append(samples,
                           [key |-> coord_name, val |-> [sample_of |-> coord_name]])
                /\ key_uses' = Append(key_uses,
                           [consumer |-> "coordinate", use |-> "draw", key |-> rng_keys[i]])
                /\ pc' = "ordered"
    /\ UNCHANGED <<rng_keys, result, op>>
    /\ UNCHANGED distVars
    /\ UNCHANGED orderVars
    /\ UNCHANGED fieldVars
    /\ UNCHANGED callVars
    /\ UNCHANGED codecVars
    /\ UNCHANGED otherVars

\* zip() is exhausted: strict=True raises when the lengths differ, otherwise
\* the samples are returned keyed in declaration order
FinishSample ==
    /\ pc = "ordered"
    /\ op = "sample"
    /\ ~(Len(draws) < Len(DrawOrder(sample_order)) /\ Len(draws) < Len(rng_keys))
    /\ IF Len(DrawOrder(sample_order)) # Len(rng_keys)
       THEN pc' = "error_zip" /\ UNCHANGED result
       ELSE /\ pc' = "returned"
            /\ result' = Some([n \in 1..Len(coord_distributions) |->
                                [key |-> coord_distributions[n],
                                 val |-> Lookup(samples, coord_distributions[n])]])
    /\ UNCHANGED <<rng_keys, samples, draws, key_uses, op>>
    /\ UNCHANGED distVars
    /\ UNCHANGED orderVars
    /\ UNCHANGED fieldVars
    /\ UNCHANGED callVars
    /\ UNCHANGED codecVars
    /\ UNCHANGED otherVars

\* coord_parameters for sampling: no parameters, one drawable parameter on the
\* first key, or one on every key
SampleParams(decl) ==
    {NoParameters(decl),
     [i \in 1..Len(decl) |->
        [key |-> decl[i],
         val |-> IF i = 1 THEN <<[key |-> ArgLoc, val |-> Prior("dist")]>> ELSE <<>>]],
     [i \in 1..Len(decl) |->
        [key |-> decl[i], val |-> <<[key |-> ArgLoc, val |-> Prior("dist")]>>]]}

\* every drawable argument overridden
FullPars(params) ==
    [i \in 1..Len(params) |->
        [key |-> params[i].key,
         val |-> [j \in 1..Len(params[i].val) |->
                    [key |-> params[i].val[j].key, val |-> OverrideValue]]]]

SampleInit ==
    /\ CodecIdle
    /\ OthersIdle
    /\ NewComponent
    /\ coord_parameters \in SampleParams(coord_distributions)
    /\ pars \in {None, Some(FullPars(coord_parameters))}
    /\ dists = None /\ sites = <<>> /\ prev_sites = None /\ calls = 0
    /\ rng_keys = <<>> /\ samples = <<>> /\ draws = <<>> /\ key_uses = <<>>
    /\ result = None
    /\ CallIdle

SampleNext ==
    PostInit \/ CallSample \/ RelaxRound \/ OrderExhausted \/ DrawCoordinate \/ FinishSample

-----------------------------------------------------------------------------
(* ModelComponent.__call__: registration against data *)

\* f"{coord_name}_err"
ErrName(n) == n \o <<"_", "e", "r", "r">>

\* f"{numpyro_name}-obs"
ObsName(numpyro_name) == numpyro_name \o <<"-", "o", "b", "s">>

\* data dicts: any subset of the coordinate columns and of their "_err" columns
DataColumns == <<<<"a">>, <<"b">>, <<"c">>, ErrName(<<"a">>), ErrName(<<"b">>), ErrName(<<"c">>)>>

\* the array stored under the i-th column (arrays are told apart by a number)
ColumnValue(i) == 20 + i

RECURSIVE DataFrom(_, _)
DataFrom(present, i) ==
    IF i > Len(DataColumns) THEN <<>>
    ELSE (IF i \in present THEN <<[key |-> DataColumns[i], val |-> ColumnValue(i)]>> ELSE <<>>)
         \o DataFrom(present, i + 1)

DataDicts == {DataFrom(present, 1) : present \in SUBSET (1..Len(DataColumns))}

\* the distribution of a site
CoordinateDist(k) == [family |-> "coordinate", coord |-> Some(k), loc |-> None, scale |-> None]
NormalDist(loc, scale) == [family |-> "Normal", coord |-> None, loc |-> Some(loc), scale |-> Some(scale)]

\* the data a key needs is present: data[k] for every member of a tuple,
\* data[coord_name] for a string
HasData(d, k) == \A n \in NamesOf(k) : HasKey(d, n)

\* _data: the stacked columns of a tuple, the column of a string
DataOf(d, k) == [i \in 1..Len(k.names) |-> Lookup(d, k.names[i])]

\* a mutation: the uncertainty of a joint key's first member is used
HasErrOfFirstMember(d, k) == HasKey(d, ErrName(k.names[1]))

\* _data_err is not None: never for a tuple, the "_err" column for a string
HasErr(d, k) == ~k.tuple /\ HasKey(d, ErrName(k.names[1]))

\* the sites one iteration of the loop registers for key k (lines 565-574);
\* latent is the value numpyro.sample returns for the latent site
SitesFor(d, k, latent) ==
    LET numpyro_name == make_numpyro_name(name, k, None)
    IN  IF HasErr(d, k)
        THEN <<[name |-> numpyro_name, value |-> latent, observed |-> FALSE,
                dist |-> CoordinateDist(k), obs |-> None],
               [name |-> ObsName(numpyro_name), value |-> 0, observed |-> TRUE,
                dist |-> NormalDist(latent, Lookup(d, ErrName(k.names[1]))),
                obs |-> Some(DataOf(d, k))]>>
        ELSE <<[name |-> ObsName(numpyro_name), value |-> 0, observed |-> TRUE,
                dist |-> CoordinateDist(k), obs |-> Some(DataOf(d, k))]>>

\* the loop over dists.items(): it stops with a KeyError at the first key
\* whose data is missing; latent[n] is the value drawn for the n-th key
RECURSIVE RegisterFrom(_, _, _)
RegisterFrom(d, n, latent) ==
    IF n > Len(coord_distributions) THEN [sites |-> <<>>, error |-> FALSE]
    ELSE IF ~HasData(d, coord_distributions[n]) THEN [sites |-> <<>>, error |-> TRUE]
    ELSE LET rest == RegisterFrom(d, n + 1, latent)
         IN  [sites |-> SitesFor(d, coord_distributions[n], latent[n]) \o rest.sites,
              error |-> rest.error]

\* __call__(data)
Register ==
    /\ pc = "ready"
    /\ op' = "__call__"
    /\ \E draw \in Draws(NumSites(<<>>)) :
       \E latent \in [1..Len(coord_distributions) ->
                        IF \E k \in Range(coord_distributions) : HasErr(data, k)
                        THEN DrawValues ELSE {0}] :
          LET made == make_dists(<<>>, draw)
              r == RegisterFrom(data, 1, latent)
          IN  /\ dists' = Some(made.dists)
              /\ sites' = [i \in 1..Len(made.sites) |->
                             [name |-> made.sites[i].name, value |-> made.sites[i].value,
                              observed |-> FALSE,
                              dist |-> [family |-> "prior", coord |-> None,
                                        loc |-> None, scale |-> None],
                              obs |-> None]]
                          \o r.sites
              /\ pc' = IF r.error THEN "error_key" ELSE "registered"
    /\ calls' = calls + 1
    /\ UNCHANGED <<pars, prev_sites, data, extra_prior>>
    /\ UNCHANGED sampleVars
    /\ UNCHANGED orderVars
    /\ UNCHANGED fieldVars
    /\ UNCHANGED codecVars
    /\ UNCHANGED otherVars

\* the terms of kind numpyro.factor among the registered sites
FactorTerms == SelectSeq(sites, LAMBDA s : s.dist.family = "factor")

\* the value extra_ln_prior returns: 0.0, or what a subclass overrides it with
ExtraPriors == {0, -3}

RegisterInit ==
    /\ CodecIdle
    /\ OthersIdle
    /\ pc = "new"
    /\ op = "none"
    /\ name = <<"s">>
    /\ coord_distributions \in {d \in Declarations : Len(d) <= MaxDistKeys}
    /\ coord_parameters \in SampleParams(coord_distributions)
    /\ default_x_coord = None
    /\ conditional_data = None
    /\ coord_names = None
    /\ sample_order = <<>> /\ pending = <<>> /\ round = 0
    /\ DistIdle
    /\ data \in DataDicts
    /\ extra_prior \in ExtraPriors

RegisterNext == PostInit \/ Register

\* components for make_dists: at most MaxDistKeys keys, no conditional_data
DistsInit ==
    /\ CodecIdle
    /\ OthersIdle
    /\ pc = "new"
    /\ op = "none"
    /\ name = <<"s">>
    /\ coord_distributions \in {d \in Declarations : Len(d) <= MaxDistKeys}
    /\ coord_parameters \in ParamsFor(coord_distributions)
    /\ default_x_coord = None
    /\ conditional_data = None
    /\ coord_names = None
    /\ sample_order = <<>> /\ pending = <<>> /\ round = 0
    /\ pars \in {None} \cup {Some(P) : P \in ParsFor(coord_distributions, coord_parameters)}
    /\ dists = None /\ sites = <<>> /\ prev_sites = None /\ calls = 0
    /\ rng_keys = <<>> /\ samples = <<>> /\ draws = <<>> /\ key_uses = <<>>
    /\ result = None
    /\ CallIdle

DistsNext == PostInit \/ CallMakeDists

OrderNext == PostInit \/ CallSampleOrder \/ RelaxRound \/ OrderExhausted

-----------------------------------------------------------------------------
(* ModelMixin.evaluate_on_2d_grids on a ModelComponent *)

NameA == <<"a">>
NameB == <<"b">>
NameC == <<"c">>
\* a two-character coordinate name that contains the name "a"
NameCA == <<"c", "a">>

GridKeys ==
    {StrKey(NameA), StrKey(NameB), StrKey(NameC), StrKey(NameCA),
     TupleKey(<<NameA, NameB>>), TupleKey(<<NameB, NameC>>)}

\* coord_distributions of the components evaluated on grids
GridDeclarations ==
    {d \in SeqsUpTo(GridKeys, MaxKeys) :
        /\ Len(d) >= 1
        /\ \A i, j \in 1..Len(d) : i # j => NamesOf(d[i]) \cap NamesOf(d[j]) = {}}

\* every declared key has one drawable argument
GridParams(decl) ==
    [i \in 1..Len(decl) |->
        [key |-> decl[i], val |-> <<[key |-> ArgLoc, val |-> Prior("dist")]>>]]

\* the names a request may use
RequestNames == {NameA, NameB, NameC}

\* grid_coord_names: lists of distinct (name, name) tuples
PairLists ==
    {ps \in SeqsUpTo({NameA, NameB} \X RequestNames, MaxPairs) : IsInjective(ps)}

\* grids: dicts name -> 1D grid of bin edges; the grid of n is written [edges |-> n]
GridsOver(names) ==
    LET all == <<NameA, NameB, NameC>>
        kept == SelectSeq(all, LAMBDA n : n \in names)
    IN  [i \in 1..Len(kept) |-> [key |-> StrKey(kept[i]), val |-> [edges |-> kept[i]]]]

GridDicts == {GridsOver(names) : names \in {RequestNames, {NameA, NameC}, {NameB}, {}}}

\* Python "x in s" for two strings
Substring(x, s) ==
    \E i \in 1..(Len(s) - Len(x) + 1) : SubSeq(s, i, i + Len(x) - 1) = x

\* "x_coord_name in x_joint_name_pair": membership in a tuple, containment in a str
PyIn(x, k) == IF k.tuple THEN x \in Range(k.names) ELSE Substring(x, k.names[1])

\* lines 126-128: the value of x_joint_name_pair after the loop: the first key
\* passing the test, or the last key when the loop runs to its end
JointKeyFor(x) ==
    IF \E i \in 1..Len(coord_distributions) : PyIn(x, coord_distributions[i])
    THEN coord_distributions[
            CHOOSE i \in 1..Len(coord_distributions) :
                /\ PyIn(x, coord_distributions[i])
                /\ \A j \in 1..(i - 1) : ~PyIn(x, coord_distributions[j])]
    ELSE coord_distributions[Len(coord_distributions)]

\* a (name, name) tuple used as a dict key
PairKey(pair) == TupleKey(<<pair[1], pair[2]>>)

\* self._coord_names[1:]
PairedNames(names) == Tail(names)

\* lines 86-90: the default grid_coord_names
DefaultPairs(x) ==
    LET others == PairedNames(coord_names[1])
    IN  [i \in 1..Len(others) |-> <<x, others[i]>>]

\* lines 92-100: some pair does not start with the x coordinate
BadFirst(pairs, x) == \E i \in 1..Len(pairs) : pairs[i][1] # x

\* a mutation: only the first name of each pair is validated
UnknownFirstName(pairs) ==
    \E i \in 1..Len(pairs) : pairs[i][1] \notin Range(coord_names[1])

\* lines 103-107: some name of some pair is not in _coord_names
UnknownName(pairs) ==
    \E i \in 1..Len(pairs) : \E n \in {pairs[i][1], pairs[i][2]} :
        n \notin Range(coord_names[1])

\* _get_grids_2d, lines 37-44: some name of some pair has no 1D grid
MissingGrid(G, pairs) ==
    \E i \in 1..Len(pairs) : \E n \in {pairs[i][1], pairs[i][2]} : ~HasKey(G, StrKey(n))

\* grid_cs: the bin centres of every 1D grid
GridCentres(G) == [i \in 1..Len(G) |-> [key |-> G[i].key, val |-> [centres |-> G[i].val.edges]]]

RECURSIVE SumArgs(_)
SumArgs(kwargs) == IF Len(kwargs) = 0 THEN 0 ELSE kwargs[1].val + SumArgs(Tail(kwargs))

\* Distribution(**kwargs).log_prob(...): a value that depends on the key and on
\* every constructor argument
LogProb(D, k) == SumArgs(Lookup(D, k)) + Len(k.names)

\* ln_simpson(ln_p, grid2_c, axis=0): integrating changes the value
ln_simpson(v) == v - 1

\* what a call has done when it raises during validation
NoWork(status) ==
    [status |-> status, dists |-> None, sites |-> <<>>, log_probs |-> <<>>,
     x_joint |-> None, evals |-> None]

\* one log_prob call: the key of the distribution and the conditional keywords
LogProbCall(k, cond) == [key |-> k, extra |-> Lookup(cond, k)]

\* lines 118-150: ln_p_x, from the joint key of x or from its own distribution
XStep(D, G, cond, pairs, x) ==
    IF StrKey(x) \notin Range(coord_distributions)
    THEN LET j == JointKeyFor(x)
         IN  IF \E i \in 1..Len(pairs) : PairKey(pairs[i]) = j
             THEN [ok |-> TRUE, x_joint |-> Some(j), log_probs |-> <<LogProbCall(j, cond)>>,
                   ln_p_x |-> ln_simpson(LogProb(D, j))]
             ELSE [ok |-> FALSE, x_joint |-> Some(j), log_probs |-> <<>>, ln_p_x |-> 0]
    ELSE IF HasKey(G, StrKey(x))
         THEN [ok |-> TRUE, x_joint |-> None,
               log_probs |-> <<LogProbCall(StrKey(x), cond)>>,
               ln_p_x |-> LogProb(D, StrKey(x))]
         ELSE [ok |-> FALSE, x_joint |-> None, log_probs |-> <<>>, ln_p_x |-> 0]

\* lines 152-172: the loop over grid_coord_names from its i-th pair on
RECURSIVE PairLoop(_, _, _, _, _)
PairLoop(D, cond, pairs, ln_p_x, i) ==
    IF i > Len(pairs) THEN [ok |-> TRUE, log_probs |-> <<>>, evals |-> <<>>]
    ELSE LET pair == pairs[i]
             y == StrKey(pair[2])
             rest == PairLoop(D, cond, pairs, ln_p_x, i + 1)
         IN  IF PairKey(pair) \in Range(coord_distributions)
             THEN [ok |-> rest.ok,
                   log_probs |-> <<LogProbCall(PairKey(pair), cond)>> \o rest.log_probs,
                   evals |-> <<[key |-> pair, val |-> LogProb(D, PairKey(pair))]>>
                             \o rest.evals]
             ELSE IF y \in Range(coord_distributions)
             THEN [ok |-> rest.ok,
                   log_probs |-> <<LogProbCall(y, cond)>> \o rest.log_probs,
                   evals |-> <<[key |-> pair, val |-> ln_p_x + LogProb(D, y)]>>
                             \o rest.evals]
             ELSE [ok |-> FALSE, log_probs |-> <<>>, evals |-> <<>>]

\* evaluate_on_2d_grids(pars, grids, grid_coord_names, x_coord_name) on the
\* constructed component, with draw the values of the sites make_dists registers
evaluate_on_2d_grids(P, G, pairsOpt, xOpt, draw) ==
    LET x == IF xOpt = None THEN default_x_coord[1] ELSE xOpt[1]
    IN  IF x \notin Range(coord_names[1]) THEN NoWork("ValueError")
        ELSE LET pairs == IF pairsOpt = None THEN DefaultPairs(x) ELSE pairsOpt[1]
             IN  IF BadFirst(pairs, x) \/ UnknownName(pairs) \/ MissingGrid(G, pairs)
                 THEN NoWork("ValueError")
                 ELSE LET cond == make_conditional_data(GridCentres(G))
                          made == make_dists(P, draw)
                          built == [NoWork("KeyError") EXCEPT !.dists = Some(made.dists),
                                                             !.sites = made.sites]
                          xs == XStep(made.dists, G, cond, pairs, x)
                          loop == PairLoop(made.dists, cond, pairs, xs.ln_p_x, 1)
                      IN  IF ~xs.ok THEN [built EXCEPT !.x_joint = xs.x_joint]
                          ELSE IF ~loop.ok
                          THEN [built EXCEPT !.x_joint = xs.x_joint,
                                             !.log_probs = xs.log_probs \o loop.log_probs]
                          ELSE [built EXCEPT !.status = "ok",
                                             !.x_joint = xs.x_joint,
                                             !.log_probs = xs.log_probs \o loop.log_probs,
                                             !.evals = Some(loop.evals)]

EvaluateOnGrids ==
    /\ pc = "ready"
    /\ op' = "evaluate_on_2d_grids"
    /\ \E draw \in Draws(NumSites(ParsOrEmpty)) :
          LET r == evaluate_on_2d_grids(ParsOrEmpty, grids, grid_coord_names,
                                        x_coord_name, draw)
          IN  /\ dists' = r.dists
              /\ sites' = r.sites
              /\ log_probs' = r.log_probs
              /\ x_joint' = r.x_joint
              /\ evals' = r.evals
              /\ pc' = CASE r.status = "ok" -> "evaluated"
                          [] r.status = "ValueError" -> "error_value"
                          [] OTHER -> "error_key"
    /\ calls' = calls + 1
    /\ UNCHANGED <<pars, prev_sites>>
    /\ UNCHANGED <<x_coord_name, grid_coord_names, grids>>
    /\ UNCHANGED mixVars
    /\ UNCHANGED frameVars
    /\ UNCHANGED distrVars
    /\ UNCHANGED fieldVars
    /\ UNCHANGED orderVars
    /\ UNCHANGED sampleVars
    /\ UNCHANGED callVars
    /\ UNCHANGED codecVars

\* default_x_coord as the caller passes it: omitted, or any name
GridInit ==
    /\ CodecIdle
    /\ pc = "new"
    /\ op = "none"
    /\ name = <<"s">>
    /\ coord_distributions \in GridDeclarations
    /\ coord_parameters = GridParams(coord_distributions)
    /\ default_x_coord \in {None, Some(NameA), Some(NameB)}
    /\ conditional_data = None
    /\ coord_names = None
    /\ sample_order = <<>> /\ pending = <<>> /\ round = 0
    /\ pars \in {Some(<<>>), Some(FullPars(coord_parameters))}
    /\ dists = None /\ sites = <<>> /\ prev_sites = None /\ calls = 0
    /\ rng_keys = <<>> /\ samples = <<>> /\ draws = <<>> /\ key_uses = <<>>
    /\ result = None
    /\ CallIdle
    /\ x_coord_name \in {None, Some(NameA), Some(NameB)}
    /\ grid_coord_names \in {None} \cup {Some(ps) : ps \in PairLists}
    /\ grids \in GridDicts
    /\ log_probs = <<>> /\ x_joint = None /\ evals = None
    /\ MixIdle
    /\ FrameIdle
    /\ DistrIdle

GridNext == PostInit \/ EvaluateOnGrids

-----------------------------------------------------------------------------
(* expand_numpyro_params of ModelComponent and of ComponentMixtureModel *)

\* d[k] = v on a dict
Put(d, k, v) ==
    IF HasKey(d, k)
    THEN [i \in 1..Len(d) |-> IF d[i].key = k THEN [key |-> k, val |-> v] ELSE d[i]]
    ELSE Append(d, [key |-> k, val |-> v])

\* str.startswith
StartsWith(s, prefix) == Len(s) >= Len(prefix) /\ SubSeq(s, 1, Len(prefix)) = prefix

\* lines 446-453 of ModelComponent.expand_numpyro_params: the loop from the
\* i-th item on; acc holds expanded_pars and the last value bound to name
RECURSIVE ExpandItems(_, _, _)
ExpandItems(flat, i, acc) ==
    IF i > Len(flat) THEN acc
    ELSE LET t == expand_numpyro_name(flat[i].key)
         IN  IF t.error # "none" THEN [acc EXCEPT !.error = t.error]
             ELSE LET byCoord == GetOr(acc.expanded, t.name, <<>>)
                      byArg == GetOr(byCoord, t.coord, <<>>)
                      next == Put(acc.expanded, t.name,
                                  Put(byCoord, t.coord, Put(byArg, t.arg, flat[i].val)))
                  IN  ExpandItems(flat, i + 1,
                                  [acc EXCEPT !.expanded = next, !.name = Some(t.name)])

\* ModelComponent.expand_numpyro_params(pars): "return expanded_pars[name]"
\* reads the loop variable, which is unbound when pars is empty
expand_numpyro_params(flat) ==
    LET r == ExpandItems(flat, 1, [error |-> "none", expanded |-> <<>>, name |-> None])
    IN  IF r.error # "none" THEN [error |-> r.error, val |-> <<>>]
        ELSE IF r.name = None THEN [error |-> "UnboundLocalError", val |-> <<>>]
        ELSE [error |-> "none", val |-> Lookup(r.expanded, r.name[1])]

\* f"{component.name}:"
ComponentPrefix(n) == n \o <<":">>

\* dict.update
RECURSIVE Update(_, _)
Update(d, more) ==
    IF Len(more) = 0 THEN d ELSE Update(Put(d, more[1].key, more[1].val), Tail(more))

\* lines 680-687 of ComponentMixtureModel.expand_numpyro_params: the loop over
\* the components from the i-th on; local is the deep copy of pars, from which
\* the keys of each component are popped
RECURSIVE ExpandComponents(_, _, _, _)
ExpandComponents(comps, i, local, acc) ==
    IF i > Len(comps) THEN [error |-> "none", expanded |-> acc, local |-> local]
    ELSE LET mine(entry) == StartsWith(entry.key, ComponentPrefix(comps[i]))
             component_pars == SelectSeq(local, mine)
             left == SelectSeq(local, LAMBDA entry : ~mine(entry))
             r == expand_numpyro_params(component_pars)
         IN  IF r.error # "none"
             THEN [error |-> r.error, expanded |-> acc, local |-> left]
             ELSE ExpandComponents(comps, i + 1, left, Put(acc, comps[i], r.val))

\* a mutation: no copy is made, the pops act on the caller's dict
PoppedInPlace(flat, popped) == popped

\* line 678, "pars = copy.deepcopy(pars)": the dict the pops of line 684 act on
\* is a copy, so the dict of the caller keeps every entry whatever was popped;
\* popped is what is left of the local dict when the call ends
CallerPars(flat, popped) == flat

\* ComponentMixtureModel.expand_numpyro_params(pars); caller is the dict of the
\* caller as the call leaves it
mixture_expand_numpyro_params(comps, flat) ==
    LET r == ExpandComponents(comps, 1, flat, <<>>)
    IN  IF r.error # "none"
        THEN [error |-> r.error, val |-> <<>>, caller |-> CallerPars(flat, r.local)]
        ELSE [error |-> "none", val |-> Update(r.expanded, r.local),
              caller |-> CallerPars(flat, r.local)]

MixtureProbs == <<"m", "i", "x", "t", "u", "r", "e", "-", "p", "r", "o", "b", "s">>

NameS == <<"s">>
NameT == <<"t">>
NameU == <<"u">>

\* the keys of the flat mappings: site names of the components s and t, a site
\* name of a component that is not in the mixture, and the mixing weights
FlatKeys ==
    <<make_numpyro_name(NameS, StrKey(NameA), Some(ArgLoc)),
      make_numpyro_name(NameS, TupleKey(<<NameA, NameB>>), Some(ArgLoc)),
      make_numpyro_name(NameT, StrKey(NameA), Some(ArgLoc)),
      make_numpyro_name(NameT, StrKey(NameA), Some(ArgScale)),
      make_numpyro_name(NameU, StrKey(NameA), Some(ArgLoc)),
      MixtureProbs>>

\* flat mappings: distinct keys in any order, each key with a value of its own
FlatDicts ==
    {[i \in 1..Len(ks) |-> [key |-> FlatKeys[ks[i]], val |-> ks[i]]] :
        ks \in {s \in SeqsUpTo(1..Len(FlatKeys), MaxFlat) : IsInjective(s)}}

ComponentLists == {<<NameS, NameT>>, <<NameT, NameS>>, <<NameS>>}

ExpandMixture ==
    /\ pc \in {"idle", "ready"}
    /\ op' = "mixture.expand_numpyro_params"
    /\ \E r \in {mixture_expand_numpyro_params(components, flat_pars)} :
          /\ expanded' = IF r.error = "none" THEN Some(r.val) ELSE None
          /\ flat_pars' = r.caller
          /\ pc' = CASE r.error = "none" -> "expanded"
                      [] r.error = "UnboundLocalError" -> "error_unbound"
                      [] OTHER -> "error_index"
    /\ UNCHANGED <<components, terms>>
    /\ UNCHANGED frameVars
    /\ UNCHANGED distrVars
    /\ UNCHANGED gridVars
    /\ UNCHANGED fieldVars
    /\ UNCHANGED orderVars
    /\ UNCHANGED distVars
    /\ UNCHANGED sampleVars
    /\ UNCHANGED callVars
    /\ UNCHANGED codecVars

ExpandInit ==
    /\ CodecIdle
    /\ ComponentIdle
    /\ DistIdle
    /\ CallIdle
    /\ GridIdle
    /\ components \in ComponentLists
    /\ flat_pars \in FlatDicts
    /\ expanded = None
    /\ terms = None
    /\ FrameIdle
    /\ DistrIdle

ExpandNext == ExpandMixture

-----------------------------------------------------------------------------
(* ComponentMixtureModel.evaluate_on_2d_grids *)

\* The components of a mixture share the declaration held in the component
\* fields (the mixture requires the same coordinate names of all of them) and
\* differ in their names and in the parameter values the flat mapping gives
\* them.

RECURSIVE Pow2(_)
Pow2(n) == IF n = 0 THEN 1 ELSE 2 * Pow2(n - 1)

\* Mixing weights are counted in halves: <<2, 0>> is [1.0, 0.0], <<1, 1>> is
\* [0.5, 0.5].  A log-density v >= 0 stands for the density 2^v; the logarithm
\* of a density of h halves that is no power of two is written -h.
RECURSIVE WeightedSum(_, _)
WeightedSum(a, b) ==
    IF Len(a) = 0 \/ Len(b) = 0 THEN 0
    ELSE b[1] * Pow2(a[1]) + WeightedSum(Tail(a), Tail(b))

\* the logarithm of a density of h halves
RECURSIVE Log2Floor(_)
Log2Floor(h) == IF h <= 1 THEN 0 ELSE 1 + Log2Floor(h \div 2)

LogOfHalves(h) ==
    IF h >= 2 /\ Pow2(Log2Floor(h)) = h
    THEN Log2Floor(h) - 1
    ELSE -h

\* jax.scipy.special.logsumexp(a, axis=-1, b=b)
logsumexp(a, b) == LogOfHalves(WeightedSum(a, b))

Weights == {<<2, 0>>, <<1, 1>>, <<0, 2>>}

\* the site names of component n, one per declared key, with values v+1, v+2, ...
FlatFor(n, decl, v) ==
    [i \in 1..Len(decl) |->
        [key |-> make_numpyro_name(n, decl[i], Some(ArgLoc)), val |-> v + i]]

\* the entry of the mixing weights: absent (None) or present with weights w
ProbsEntry(w) == IF w = None THEN <<>> ELSE <<[key |-> MixtureProbs, val |-> w[1]]>>

\* lines 702-711: the component evaluations from the i-th component on; each
\* entry of the result is what one component returned
RECURSIVE EvaluateComponents(_, _, _, _, _, _)
EvaluateComponents(comps, E, G, pairsOpt, xOpt, i) ==
    IF i > Len(comps) THEN <<>>
    ELSE LET P == Lookup(E, comps[i])
             r == evaluate_on_2d_grids(P, G, pairsOpt, xOpt,
                                       CHOOSE draw \in Draws(NumSites(P)) : TRUE)
         IN  IF r.status # "ok" THEN <<r>>
             ELSE <<r>> \o EvaluateComponents(comps, E, G, pairsOpt, xOpt, i + 1)

\* terms[k]: the surfaces of pair k, one per component that returned it
TermsOf(rs, k) ==
    LET having == SelectSeq(rs, LAMBDA r : HasKey(r.evals[1], k))
    IN  [i \in 1..Len(having) |-> Lookup(having[i].evals[1], k)]

\* the pairs in the order they were first inserted into terms: acc holds the
\* pairs of the components before the i-th
RECURSIVE TermKeysFrom(_, _, _)
TermKeysFrom(rs, i, acc) ==
    IF i > Len(rs) THEN acc
    ELSE LET new == SelectSeq(rs[i].evals[1],
                              LAMBDA entry : \A j \in 1..Len(acc) : acc[j] # entry.key)
         IN  TermKeysFrom(rs, i + 1, acc \o [n \in 1..Len(new) |-> new[n].key])

TermKeys(rs) == TermKeysFrom(rs, 1, <<>>)

\* lines 713-721: the weighted log-sum-exp of the terms the components rs
\* returned; caller is the pars dict after the expand_numpyro_params call
CombineTerms(rs, caller) ==
    LET failed(status) == [status |-> status, terms |-> None]
    IN  IF rs[Len(rs)].status # "ok" THEN failed(rs[Len(rs)].status)
        ELSE IF ~HasKey(caller, MixtureProbs) THEN failed("KeyError")
        ELSE IF \E k \in Range(TermKeys(rs)) :
                    Len(TermsOf(rs, k)) # Len(Lookup(caller, MixtureProbs))
        THEN failed("TypeError")
        ELSE [status |-> "ok",
              terms |-> Some([i \in 1..Len(TermKeys(rs)) |->
                                [key |-> TermKeys(rs)[i],
                                 val |-> logsumexp(TermsOf(rs, TermKeys(rs)[i]),
                                                   Lookup(caller, MixtureProbs))]])]

\* ComponentMixtureModel.evaluate_on_2d_grids(pars, grids, grid_coord_names,
\* x_coord_name): e is what line 699 returned or raised, rs what the loop of
\* lines 702-711 collected
mixture_evaluate_on_2d_grids(e, rs) ==
    IF e.error # "none" THEN [status |-> e.error, terms |-> None]
    ELSE CombineTerms(rs, e.caller)

EvaluateMixture ==
    /\ pc = "ready"
    /\ op' = "mixture.evaluate_on_2d_grids"
    /\ \E e \in {mixture_expand_numpyro_params(components, flat_pars)} :
       \E rs \in {IF e.error # "none" THEN <<>>
                   ELSE EvaluateComponents(components, e.val, grids,
                                           grid_coord_names, x_coord_name, 1)} :
       \E r \in {mixture_evaluate_on_2d_grids(e, rs)} :
          /\ terms' = r.terms
          /\ flat_pars' = e.caller
          /\ pc' = CASE r.status = "ok" -> "evaluated"
                      [] r.status = "ValueError" -> "error_value"
                      [] r.status = "UnboundLocalError" -> "error_unbound"
                      [] OTHER -> "error_key"
    /\ UNCHANGED <<components, expanded>>
    /\ UNCHANGED frameVars
    /\ UNCHANGED distrVars
    /\ UNCHANGED gridVars
    /\ UNCHANGED fieldVars
    /\ UNCHANGED orderVars
    /\ UNCHANGED distVars
    /\ UNCHANGED sampleVars
    /\ UNCHANGED callVars
    /\ UNCHANGED codecVars

MixInit ==
    /\ CodecIdle
    /\ pc = "new"
    /\ op = "none"
    /\ name = NameS
    /\ coord_distributions \in {d \in GridDeclarations : Len(d) <= MaxDistKeys}
    /\ coord_parameters = GridParams(coord_distributions)
    /\ default_x_coord = None
    /\ conditional_data = None
    /\ coord_names = None
    /\ sample_order = <<>> /\ pending = <<>> /\ round = 0
    /\ DistIdle
    /\ CallIdle
    /\ x_coord_name \in {None, Some(NameA), Some(NameB)}
    /\ grid_coord_names \in {None} \cup {Some(ps) : ps \in PairLists}
    /\ grids \in {GridsOver(RequestNames), GridsOver({NameA, NameC})}
    /\ log_probs = <<>> /\ x_joint = None /\ evals = None
    /\ components \in {<<NameS, NameT>>, <<NameT, NameS>>}
    /\ \E A \in {<<>>, FlatFor(NameS, coord_distributions, 0)},
          B \in {<<>>, FlatFor(NameT, coord_distributions, 2)},
          w \in {None} \cup {Some(b) : b \in Weights} :
             flat_pars = A \o B \o ProbsEntry(w)
    /\ expanded = None
    /\ terms = None
    /\ FrameIdle
    /\ DistrIdle

MixNext == PostInit \/ EvaluateMixture

-----------------------------------------------------------------------------
(* Successive calls on one constructed component and one mixture *)

\* the positions at which a call has returned or raised
Finished ==
    {"error_order", "made", "returned", "error_zip", "registered", "error_key",
     "evaluated", "error_value", "expanded", "error_unbound", "error_index"}

\* The call is over: its locals and its result are gone, the object and the
\* arguments of the caller stay as the call left them, and the next call can
\* start.  The order a finished _sample_order call returned (on its own, line
\* 548, or inside sample, line 609) is remembered.
Return ==
    /\ \/ pc \in Finished
       \/ pc = "ordered" /\ op = "_sample_order"
    /\ pc' = "ready"
    /\ prev_order' = IF /\ op \in {"_sample_order", "sample"}
                         /\ pc \in {"ordered", "returned"}
                      THEN Some(sample_order)
                      ELSE prev_order
    /\ sample_order' = <<>> /\ pending' = <<>> /\ round' = 0
    /\ dists' = None /\ sites' = <<>> /\ prev_sites' = None /\ calls' = 0
    /\ rng_keys' = <<>> /\ samples' = <<>> /\ draws' = <<>> /\ key_uses' = <<>>
    /\ result' = None
    /\ log_probs' = <<>> /\ x_joint' = None /\ evals' = None
    /\ expanded' = None /\ terms' = None
    /\ UNCHANGED <<op, pars, x_coord_name, grid_coord_names, grids, components, flat_pars>>
    /\ UNCHANGED distrVars
    /\ UNCHANGED fieldVars
    /\ UNCHANGED callVars
    /\ UNCHANGED codecVars

\* two independent coordinates, and a coordinate next to a joint pair
FrameDeclarations ==
    {<<StrKey(NameA), StrKey(NameB)>>,
     <<StrKey(NameC), TupleKey(<<NameA, NameB>>)>>}

\* one component, with or without conditional_data, the arguments of every
\* method, and a mixture of the components s and t
FrameInit ==
    /\ CodecIdle
    /\ pc = "new"
    /\ op = "none"
    /\ name = NameS
    /\ coord_distributions \in FrameDeclarations
    /\ coord_parameters = GridParams(coord_distributions)
    /\ default_x_coord = None
    /\ conditional_data \in {None} \cup {Some(d) : d \in CondDicts(coord_distributions)}
    /\ coord_names = None
    /\ sample_order = <<>> /\ pending = <<>> /\ round = 0
    /\ pars \in {None, Some(FullPars(coord_parameters))}
    /\ dists = None /\ sites = <<>> /\ prev_sites = None /\ calls = 0
    /\ rng_keys = <<>> /\ samples = <<>> /\ draws = <<>> /\ key_uses = <<>>
    /\ result = None
    /\ data = DataFrom(1..Len(DataColumns), 1)
    /\ extra_prior = 0
    /\ x_coord_name = None
    /\ grid_coord_names = None
    /\ grids = GridsOver(RequestNames)
    /\ log_probs = <<>> /\ x_joint = None /\ evals = None
    /\ components = <<NameS, NameT>>
    /\ \E B \in {<<>>, FlatFor(NameT, coord_distributions, 2)} :
          flat_pars = FlatFor(NameS, coord_distributions, 0) \o B \o ProbsEntry(Some(<<1, 1>>))
    /\ expanded = None
    /\ terms = None
    /\ prev_order = None
    /\ DistrIdle

FrameNext ==
    \/ PostInit
    \/ CallSampleOrder \/ RelaxRound \/ OrderExhausted
    \/ CallMakeDists
    \/ CallSample \/ DrawCoordinate \/ FinishSample
    \/ Register
    \/ EvaluateOnGrids
    \/ ExpandMixture
    \/ EvaluateMixture
    \/ Return

-----------------------------------------------------------------------------
(* ConcatenatedConstraints *)

\* Numbers are counted in halves: 1 stands for 0.5, 2 for 1.0, 20 for 10.0.

\* dist.constraints.positive, .real and .interval(lower, upper) over size
\* coordinates; the bounds of an interval are one per coordinate, or one for all
Positive(n) == [kind |-> "positive", lower |-> <<>>, upper |-> <<>>, size |-> n]
Real(n) == [kind |-> "real", lower |-> <<>>, upper |-> <<>>, size |-> n]
Interval(lower, upper, n) == [kind |-> "interval", lower |-> lower, upper |-> upper, size |-> n]

\* the bound of the j-th coordinate (a single bound is broadcast)
BoundAt(bounds, j) == IF Len(bounds) = 1 THEN bounds[1] ELSE bounds[j]

\* the j-th coordinate of a member's slice holds v, inside its support
InSupport(member, j, v) ==
    CASE member.kind = "positive" -> v > 0
      [] member.kind = "real" -> TRUE
      [] OTHER -> BoundAt(member.lower, j) <= v /\ v <= BoundAt(member.upper, j)

\* the member accepts its slice
Accepts(member, slice) == \A j \in 1..Len(slice) : InSupport(member, j, slice[j])

\* a mutation: every member is handed the leading coordinates
SameStart(start, size) == start

\* where the slice of the next member begins
NextStart(start, size) == start + size

\* the members from the i-th on accept their slices of x, the i-th slice
\* beginning at start
RECURSIVE AcceptsFrom(_, _, _, _)
AcceptsFrom(ms, x, i, start) ==
    IF i > Len(ms) THEN TRUE
    ELSE /\ Accepts(ms[i], SubSeq(x, start, start + ms[i].size - 1))
         /\ AcceptsFrom(ms, x, i + 1, NextStart(start, ms[i].size))

\* ConcatenatedConstraints(constraints, sizes)(x) for one vector x
ConcatenatedCall(ms, x) == AcceptsFrom(ms, x, 1, 1)

\* the call on a batch of vectors: one boolean per vector
ConcatenatedBatchCall(ms, xs) == [i \in 1..Len(xs) |-> ConcatenatedCall(ms, xs[i])]

\* setup_constraints of the test: positive, real, interval(0, 1),
\* interval([0, 2], [1, 100]) with sizes [1, 2, 1, 2]
TestConstraints ==
    <<Positive(1), Real(2), Interval(<<0>>, <<2>>, 1), Interval(<<0, 4>>, <<2, 200>>, 2)>>

\* jnp.full(6, 0.5)
TestHalves == <<1, 1, 1, 1, 1, 1>>
\* [1.0, 0.0, 0.0, 0.5, 1.0, 10.0]
TestInside == <<2, 0, 0, 1, 2, 20>>
\* [-1.0, 0.0, 0.0, 0.5, 1.0, 10.0]
TestOutside == <<-2, 0, 0, 1, 2, 20>>

\* a second concatenation, with the vector-valued member first
OtherConstraints == <<Interval(<<0, 4>>, <<2, 200>>, 2), Positive(1)>>
OtherInside == <<2, 20, 2>>

ConstraintSets == {TestConstraints, OtherConstraints}

InsideOf(ms) == IF ms = TestConstraints THEN TestInside ELSE OtherInside

RECURSIVE TotalSize(_)
TotalSize(ms) == IF Len(ms) = 0 THEN 0 ELSE ms[1].size + TotalSize(Tail(ms))

\* the values a coordinate takes: -1.0, 0.0, 0.5, 1.0, 10.0
CoordinateValues == {-2, 0, 1, 2, 20}

ConcatInit ==
    /\ CodecIdle
    /\ ComponentIdle
    /\ DistIdle
    /\ CallIdle
    /\ GridIdle
    /\ MixIdle
    /\ FrameIdle
    /\ GmmIdle
    /\ members \in ConstraintSets
    /\ \E x \in [1..TotalSize(members) -> CoordinateValues] :
          batch \in {<<x>>, <<x, InsideOf(members)>>, <<InsideOf(members), x>>}
    /\ verdicts = None

\* c(test_data)
CallConstraint ==
    /\ verdicts = None
    /\ Len(batch) > 0
    /\ verdicts' = Some(ConcatenatedBatchCall(members, batch))
    /\ UNCHANGED <<members, batch>>
    /\ UNCHANGED gmmVars
    /\ UNCHANGED <<pc, op>>
    /\ UNCHANGED fieldVars
    /\ UNCHANGED orderVars
    /\ UNCHANGED distVars
    /\ UNCHANGED sampleVars
    /\ UNCHANGED callVars
    /\ UNCHANGED codecVars
    /\ UNCHANGED <<gridVars, mixVars, frameVars>>

ConcatNext == CallConstraint

-----------------------------------------------------------------------------
(* TruncatedGridGMM.__init__ *)

\* "low = -float('inf')", "high = float('inf')": the bounds of an axis that is
\* not truncated, written as positions beyond every finite one
NegInf == -100
PosInf == 100

\* The standard normal cdf at z scales from the mean, in hundredths, as a
\* finite precision gives it: symmetric, 0 far below the mean and 1 far above.
StandardCdf(z) ==
    CASE z <= -3 -> 0
      [] z = -2 -> 2
      [] z = -1 -> 16
      [] z = 0 -> 50
      [] z = 1 -> 84
      [] z = 2 -> 98
      [] OTHER -> 100

\* dist.Normal(loc, scale).cdf(x)
NormalCdf(x, loc, scale) == StandardCdf((x - loc) \div scale)

\* jnp.where(locs[k, d] >= low[d], 1.0, -1.0)
Sign(loc, lo) == IF loc >= lo THEN 1 ELSE -1

\* norm.cdf(locs[k, d] - sign * (locs[k, d] - bound))
TailProbAt(bound, loc, scale, lo) ==
    NormalCdf(loc - Sign(loc, lo) * (loc - bound), loc, scale)

\* sign * (_tail_prob_at_high - _tail_prob_at_low)
RetainedMass(loc, scale, lo, hi) ==
    Sign(loc, lo) * (TailProbAt(hi, loc, scale, lo) - TailProbAt(lo, loc, scale, lo))

\* The entry of _log_diff_tail_probs for one component after the dimensions
\* d..D were added.  A sum of logarithms is kept as the product it is the
\* logarithm of (hundredths per dimension): 0 stands for -inf.
RECURSIVE LogSumFrom(_, _, _, _, _)
LogSumFrom(row, scale, lows, highs, d) ==
    IF d > Len(row) THEN 1
    ELSE RetainedMass(row[d], scale, lows[d], highs[d])
         * LogSumFrom(row, scale, lows, highs, d + 1)

\* shapes (K, D) of locs
Shapes == {<<1, 1>>, <<1, 2>>, <<2, 1>>, <<2, 2>>}

\* positions, in units of which every scale is a whole number
LocValues == {-4, 0, 4}
BoundValues == {NegInf, -4, -2, 0, 2, 4, PosInf}
ScaleValues == {1, 2}

GmmInit ==
    /\ CodecIdle
    /\ ComponentIdle
    /\ DistIdle
    /\ CallIdle
    /\ GridIdle
    /\ MixIdle
    /\ FrameIdle
    /\ ConcatIdle
    /\ \E shape \in Shapes :
          /\ locs \in [1..shape[1] -> [1..shape[2] -> LocValues]]
          /\ low \in [1..shape[2] -> BoundValues]
          /\ high \in [1..shape[2] -> BoundValues]
    /\ \A d \in 1..Len(low) : low[d] < high[d]
    /\ scales \in ScaleValues
    /\ masses = None
    /\ log_diff_tail_probs = None

\* lines 110-127: the loop over the K components and the D dimensions
Construct ==
    /\ masses = None
    /\ Len(locs) > 0
    /\ masses' = Some([k \in 1..Len(locs) |->
                         [d \in 1..Len(low) |->
                            RetainedMass(locs[k][d], scales, low[d], high[d])]])
    /\ log_diff_tail_probs' =
          Some([k \in 1..Len(locs) |-> LogSumFrom(locs[k], scales, low, high, 1)])
    /\ UNCHANGED <<locs, scales, low, high>>
    /\ UNCHANGED concatVars
    /\ UNCHANGED <<pc, op>>
    /\ UNCHANGED fieldVars
    /\ UNCHANGED orderVars
    /\ UNCHANGED distVars
    /\ UNCHANGED sampleVars
    /\ UNCHANGED callVars
    /\ UNCHANGED codecVars
    /\ UNCHANGED <<gridVars, mixVars, frameVars>>

GmmNext == Construct

-----------------------------------------------------------------------------
(* Specifications *)

SpecCodec == CodecInit /\ [][CodecNext]_vars

SpecGrid == GridInit /\ [][GridNext]_vars

SpecExpand == ExpandInit /\ [][ExpandNext]_vars

SpecMix == MixInit /\ [][MixNext]_vars

SpecFrame == FrameInit /\ [][FrameNext]_vars

SpecConcat == ConcatInit /\ [][ConcatNext]_vars

SpecGmm == GmmInit /\ [][GmmNext]_vars

SpecOrder == OrderInit /\ [][OrderNext]_vars

SpecDists == DistsInit /\ [][DistsNext]_vars

SpecSample == SampleInit /\ [][SampleNext]_vars

SpecRegister == RegisterInit /\ [][RegisterNext]_vars

SpecOrderFair == SpecOrder /\ WF_vars(OrderNext)

-----------------------------------------------------------------------------
(* The dependency graph of conditional_data: key A reads key B when a value *)
(* of A's conditional_data entry is one of B's coordinate names            *)

GraphCond == IF conditional_data = None THEN <<>> ELSE conditional_data[1]

Reads(A, B) == \E dep \in ValueSet(GetOr(GraphCond, A, <<>>)) : dep \in NamesOf(B)

\* a cycle through n distinct declared keys
SimpleCycle(n) ==
    \E s \in [1..n -> 1..Len(coord_distributions)] :
        /\ IsInjective(s)
        /\ \A i \in 1..n :
              Reads(coord_distributions[s[i]], coord_distributions[s[(i % n) + 1]])

DirectCycle == SimpleCycle(1) \/ SimpleCycle(2)
LongCycle == \E n \in 3..Len(coord_distributions) : SimpleCycle(n)
Acyclic == ~\E n \in 1..Len(coord_distributions) : SimpleCycle(n)

\* every conditional_data key is declared and reads declared coordinates only
WellFormedGraph ==
    /\ KeySet(GraphCond) \subseteq Range(coord_distributions)
    /\ \A i \in 1..Len(GraphCond) :
          ValueSet(GraphCond[i].val) \subseteq Range(FlattenNames(coord_distributions))

Constructed == pc \notin {"idle", "new", "error_keys", "error_circular"}

\* order holds every declared key exactly once and nothing else
IsPermutationOfKeys(order) ==
    /\ IsInjective(order)
    /\ Range(order) = Range(coord_distributions)

\* every key comes after every key that owns a coordinate it reads
DependenciesFirst(order) ==
    \A i \in 1..Len(order) : \A B \in Range(coord_distributions) :
        Reads(order[i], B) =>
            \E j \in 1..(i - 1) : order[j] = B

-----------------------------------------------------------------------------
(* C1 *)

\* C1: for every acyclic dependency graph of a constructed component,
\* _sample_order returns (it does not raise) a list that holds every key of
\* coord_distributions exactly once and nothing else, each key after all the
\* coordinates it reads.
C1_OrderForEveryAcyclicGraph ==
    (Constructed /\ op = "_sample_order" /\ WellFormedGraph /\ Acyclic) =>
        /\ pc # "error_order"
        /\ pc = "ordered" =>
              (IsPermutationOfKeys(sample_order) /\ DependenciesFirst(sample_order))

-----------------------------------------------------------------------------
(* C3 *)

\* C3: a component whose dependency graph has a direct 2-cycle (A reads a
\* coordinate of B and B reads a coordinate of A, or a key reads itself) is
\* never constructed: __post_init__ raises the circular-dependency error.
C3_DirectCycleRejected ==
    DirectCycle => pc \in {"new", "error_circular"}

-----------------------------------------------------------------------------
(* C4 *)

\* C4: when the graph of a constructed component has a cycle of length 3 or
\* more, a request for the evaluation order never returns an order, never
\* runs more than MaxRounds relaxation rounds, and ends by raising.
C4_LongCycleRaises ==
    /\ [](LongCycle => (pc # "ordered" /\ round <= MaxRounds))
    /\ []((LongCycle /\ pc = "ordering") => <>(pc = "error_order"))

C4_Witness ==
    LongCycle /\ pc = "error_order" /\ round = MaxRounds

-----------------------------------------------------------------------------
(* C7 *)

\* the declared (key, argument, spec) triples, as a set
DeclaredArgs ==
    UNION {{[coord |-> coord_parameters[i].key,
             arg |-> coord_parameters[i].val[j].key,
             spec |-> coord_parameters[i].val[j].val] :
                j \in 1..Len(coord_parameters[i].val)} : i \in 1..Len(coord_parameters)}

InPars(a) == HasKey(ParsOrEmpty, a.coord) /\ HasKey(Lookup(ParsOrEmpty, a.coord), a.arg)

BoundValue(a) == Lookup(Lookup(dists[1], a.coord), a.arg)

Declared(spec, v) == IF spec.wrapped THEN Wrapper(v) ELSE v

EncodedName(a) == make_numpyro_name(name, a.coord, Some(a.arg))

\* C7: make_dists binds, for every CoordinateKey and declared argument,
\* wrapper(v): v is values[coord][arg] when present, otherwise the value drawn
\* at the site registered under the encoded name when the spec is drawable,
\* otherwise the declared literal; wrapper is the declared one or the identity.
C7_ArgumentPriority ==
    pc = "made" =>
        /\ KeySet(dists[1]) = Range(coord_distributions)
        /\ \A k \in Range(coord_distributions) :
              KeySet(Lookup(dists[1], k)) = KeySet(Lookup(coord_parameters, k))
        /\ \A a \in DeclaredArgs :
              IF InPars(a)
              THEN BoundValue(a) = Declared(a.spec, Lookup(Lookup(ParsOrEmpty, a.coord), a.arg))
              ELSE IF a.spec.kind \in {"dict", "dist"}
              THEN \E n \in 1..Len(sites) :
                      /\ sites[n].name = EncodedName(a)
                      /\ BoundValue(a) = Declared(a.spec, sites[n].value)
              ELSE BoundValue(a) = Declared(a.spec, a.spec.lit)

C7_Witness ==
    /\ pc = "made"
    /\ \E a \in DeclaredArgs : InPars(a) /\ a.spec.kind = "dist"
    /\ \E a \in DeclaredArgs :
          ~InPars(a) /\ a.spec.kind = "dist" /\ a.spec.wrapped /\ BoundValue(a) = Wrapper(1)
    /\ \E a \in DeclaredArgs : ~InPars(a) /\ a.spec.kind = "literal"

-----------------------------------------------------------------------------
(* C8 *)

Undetermined == {a \in DeclaredArgs : a.spec.kind \in {"dict", "dist"} /\ ~InPars(a)}

KeyPosition(k) == CHOOSE i \in 1..Len(coord_distributions) : coord_distributions[i] = k
ArgPosition(a) ==
    CHOOSE j \in 1..Len(Lookup(coord_parameters, a.coord)) :
        Lookup(coord_parameters, a.coord)[j].key = a.arg

\* a is declared before b: an earlier coordinate, or the same and an earlier argument
DeclaredBefore(a, b) ==
    \/ KeyPosition(a.coord) < KeyPosition(b.coord)
    \/ a.coord = b.coord /\ ArgPosition(a) < ArgPosition(b)

\* C8: the sites one make_dists call registers are the encoded names of the
\* drawable arguments values does not override, each once, in declaration order
\* of coordinates and then arguments; a second call with the same values
\* registers the same sequence; values covering every drawable argument
\* registers none.
C8_SiteSequence ==
    pc = "made" =>
        /\ IsInjective(SiteNames(sites))
        /\ Range(SiteNames(sites)) = {EncodedName(a) : a \in Undetermined}
        /\ \A m, n \in 1..Len(sites) : \A a, b \in Undetermined :
              (m < n /\ sites[m].name = EncodedName(a) /\ sites[n].name = EncodedName(b))
                  => DeclaredBefore(a, b)
        /\ prev_sites # None => prev_sites[1] = SiteNames(sites)
        /\ (\A a \in DeclaredArgs : a.spec.kind \in {"dict", "dist"} => InPars(a))
              => sites = <<>>

C8_Witness ==
    /\ pc = "made" /\ calls = 2
    /\ Len(sites) >= 2
    /\ \E a \in DeclaredArgs : a.spec.kind = "dist" /\ InPars(a)
    /\ Len(coord_parameters) = 2
    /\ coord_parameters[1].key # coord_distributions[1]
    /\ prev_sites = Some(SiteNames(sites))

-----------------------------------------------------------------------------
(* C5 *)

\* C5: in every run of sample, when a coordinate is drawn every coordinate it
\* reads through conditional_data was drawn earlier in the same call, and each
\* conditional argument passed to its distribution is that drawn sample, never
\* None.
C5_ConditionalInputsDrawn ==
    op = "sample" =>
        \A i \in 1..Len(draws) :
            LET data_map == GetOr(GraphCond, draws[i].coord, <<>>)
            IN  /\ KeySet(draws[i].extra) = KeySet(data_map)
                /\ \A j \in 1..Len(data_map) :
                      \E m \in 1..(i - 1) :
                          /\ data_map[j].val \in NamesOf(draws[m].coord)
                          /\ Lookup(draws[i].extra, data_map[j].key)
                                = Some([sample_of |-> draws[m].coord])

C5_Witness ==
    /\ op = "sample" /\ pc = "returned"
    /\ \E i \in 1..Len(draws) : Len(draws[i].extra) = 2
    /\ draws[Len(draws)].coord = coord_distributions[1]
    /\ Len(draws) = 3

-----------------------------------------------------------------------------
(* C6 *)

DrawUses == {i \in 1..Len(key_uses) : key_uses[i].use = "draw"}

\* C6: within one sample call the key given by the caller is used by at most
\* one consumer, and the prior draws of the parameters and the coordinates'
\* draws all use pairwise distinct keys.
C6_NoKeyReuse ==
    op = "sample" =>
        /\ Cardinality({i \in 1..Len(key_uses) : key_uses[i].key = RootKey}) <= 1
        /\ \A i, j \in DrawUses : key_uses[i].key = key_uses[j].key => i = j

-----------------------------------------------------------------------------
(* C9 *)

SitesWhere(P(_)) == {i \in 1..Len(sites) : P(sites[i])}

\* k is a single-name coordinate with a "<name>_err" entry in data
HasUncertainty(k) == ~k.tuple /\ HasKey(data, ErrName(k.names[1]))

\* C9: registration registers exactly one observed site per CoordinateKey, and
\* one unobserved latent site under the coordinate's encoded name exactly for
\* each single-name coordinate with a "<name>_err" entry in data, whose observed
\* site is then a Gaussian centred on the latent value with the supplied scale;
\* a joint coordinate never gets a latent site.
C9_ObservedAndLatentSites ==
    pc = "registered" =>
        /\ Cardinality(SitesWhere(LAMBDA s : s.observed)) = Len(coord_distributions)
        /\ Cardinality(SitesWhere(LAMBDA s : ~s.observed /\ s.dist.family = "coordinate"))
              = Cardinality({k \in Range(coord_distributions) : HasUncertainty(k)})
        /\ \A k \in Range(coord_distributions) :
              LET encoded_name == make_numpyro_name(name, k, None)
                  observed == SitesWhere(LAMBDA s : s.observed /\ s.name = ObsName(encoded_name))
                  latent == SitesWhere(LAMBDA s : ~s.observed /\ s.name = encoded_name)
              IN  /\ Cardinality(observed) = 1
                  /\ IF HasUncertainty(k)
                     THEN /\ Cardinality(latent) = 1
                          /\ \A i \in latent : \A j \in observed :
                                /\ sites[i].dist = CoordinateDist(k)
                                /\ sites[j].dist =
                                      NormalDist(sites[i].value,
                                                 Lookup(data, ErrName(k.names[1])))
                     ELSE /\ latent = {}
                          /\ \A j \in observed : sites[j].dist = CoordinateDist(k)

C9_Witness ==
    /\ pc = "registered"
    /\ \E k \in Range(coord_distributions) :
          k.tuple /\ \A n \in NamesOf(k) : HasKey(data, ErrName(n))
    /\ \E k \in Range(coord_distributions) : HasUncertainty(k)
    /\ \E i \in 1..Len(sites) : sites[i].dist.family = "Normal" /\ sites[i].dist.loc = Some(1)

-----------------------------------------------------------------------------
(* C10 *)

RECURSIVE SumValues(_)
SumValues(ss) == IF Len(ss) = 0 THEN 0 ELSE ss[1].value + SumValues(Tail(ss))

\* C10: one registration call adds the component's extra log-prior term to the
\* total log-probability exactly once: the factor terms of the call sum to the
\* value extra_ln_prior returns.
C10_ExtraPriorAddedOnce ==
    pc = "registered" => SumValues(FactorTerms) = extra_prior

-----------------------------------------------------------------------------
(* C2 *)

ValidCodecInput ==
    /\ carg # None
    /\ NoSeparator(cname)
    /\ NoSeparator(carg[1])
    /\ \A i \in 1..Len(ckey.names) : NoSeparator(ckey.names[i])

RoundTrips ==
    /\ decoded.error = "none"
    /\ decoded.name = cname
    /\ decoded.coord = ckey
    /\ decoded.arg = carg[1]

\* C2 as stated: for every separator-free component name, CoordinateKey (a
\* single name or a tuple of names) and argument name, decoding the encoded
\* name gives back the triple.
C2_RoundTripAnyKey ==
    (cpc = "decoded" /\ ValidCodecInput) => RoundTrips

\* C2, amended: the round trip holds when the CoordinateKey is a single name
\* or a tuple of two or more names (all names separator-free).
C2_RoundTrip ==
    (cpc = "decoded" /\ ValidCodecInput /\ (ckey.tuple => Len(ckey.names) >= 2))
        => RoundTrips

C2_Witness ==
    /\ cpc = "decoded" /\ ValidCodecInput
    /\ ckey.tuple /\ Len(ckey.names) = 2 /\ ckey.names[2] # <<>>
    /\ RoundTrips

-----------------------------------------------------------------------------
(* C11, C12, C14, C19, C20: evaluate_on_2d_grids *)

\* the coordinate names of the component, from its declared keys
DeclaredNames == UNION {NamesOf(k) : k \in Range(coord_distributions)}

\* the x coordinate of the request
RequestX == IF x_coord_name = None THEN default_x_coord[1] ELSE x_coord_name[1]

\* the pairs of the request: those passed, or (x, c) for every other coordinate c
RequestedPairs ==
    IF grid_coord_names = None
    THEN {<<RequestX, c>> : c \in DeclaredNames \ {RequestX}}
    ELSE Range(grid_coord_names[1])

EvaluateCalled == op = "evaluate_on_2d_grids"

\* a pair does not start with the x coordinate, or a name of the request is
\* not a coordinate of the component
InvalidRequest ==
    \/ RequestX \notin DeclaredNames
    \/ /\ grid_coord_names # None
       /\ \E pair \in Range(grid_coord_names[1]) :
             \/ pair[1] # RequestX
             \/ pair[1] \notin DeclaredNames
             \/ pair[2] \notin DeclaredNames

\* C11: a request with a pair whose first coordinate is not the x coordinate,
\* or naming a coordinate the component does not have, raises the
\* invalid-argument error before any work: no distribution is built, no site
\* is registered and no log-density is evaluated.
C11_InvalidRequestRaisesFirst ==
    (EvaluateCalled /\ InvalidRequest) =>
        /\ pc = "error_value"
        /\ dists = None
        /\ sites = <<>>
        /\ log_probs = <<>>
        /\ evals = None

C11_Witness ==
    /\ EvaluateCalled /\ pc = "error_value"
    /\ RequestX \in DeclaredNames
    /\ grid_coord_names # None
    /\ \A pair \in Range(grid_coord_names[1]) : pair[1] = RequestX
    /\ \E pair \in Range(grid_coord_names[1]) : pair[2] \notin DeclaredNames
    /\ KeySet(grids) = {StrKey(n) : n \in RequestNames}
    /\ pars = Some(<<>>)

\* C12: without grid_coord_names the pairs evaluated are exactly (x, c) for
\* every coordinate c other than the x coordinate, for the default x
\* coordinate and for one passed as x_coord_name.
C12_DefaultPairs ==
    (EvaluateCalled /\ pc = "evaluated" /\ grid_coord_names = None) =>
        KeySet(evals[1]) = {<<RequestX, c>> : c \in DeclaredNames \ {RequestX}}

\* C14: every component that construction accepts has a default_x_coord that
\* is one of its coordinate names.
C14_DefaultXIsCoordName ==
    Constructed =>
        /\ default_x_coord # None
        /\ default_x_coord[1] \in Range(coord_names[1])

\* C19: when the x coordinate appears only inside a joint key, the key chosen
\* for marginalizing is a tuple key of coord_distributions that has the x
\* coordinate as one of its elements.
C19_JointKeyHoldsX ==
    (EvaluateCalled /\ x_joint # None) =>
        /\ x_joint[1] \in Range(coord_distributions)
        /\ x_joint[1].tuple
        /\ RequestX \in NamesOf(x_joint[1])

\* every pair starts with the x coordinate, every name is a coordinate of the
\* component, and every named coordinate has a 1D grid
PassesValidation ==
    /\ ~InvalidRequest
    /\ HasKey(grids, StrKey(RequestX))
    /\ \A pair \in RequestedPairs : HasKey(grids, StrKey(pair[2]))

\* C20: a request that passes validation completes and returns a surface for
\* exactly the requested pairs; it does not fail with a missing-key error.
C20_ValidRequestCompletes ==
    (EvaluateCalled /\ PassesValidation) =>
        /\ pc = "evaluated"
        /\ KeySet(evals[1]) = RequestedPairs

-----------------------------------------------------------------------------
(* C13 *)

\* the nested map coordinate -> argument -> value holds v under (coord, arg)
NestedHolds(nested, coord, arg, v) ==
    /\ HasKey(nested, coord)
    /\ HasKey(Lookup(nested, coord), arg)
    /\ Lookup(Lookup(nested, coord), arg) = v

\* the number of (coordinate, argument) entries of a nested map
RECURSIVE NestedSize(_)
NestedSize(nested) ==
    IF Len(nested) = 0 THEN 0 ELSE Len(nested[1].val) + NestedSize(Tail(nested))

\* the flat key belongs to the component named n
PrefixedBy(k, n) == StartsWith(k, n \o <<":">>)

\* C13: for every flat mapping the mixture's expand_numpyro_params returns a
\* mapping with, for each component in order, an entry under its name holding
\* the nested coordinate -> argument -> value map of exactly the keys prefixed
\* by its name, and with every remaining key at the top level, value unchanged.
C13_MixtureExpand ==
    op = "mixture.expand_numpyro_params" =>
        /\ pc = "expanded"
        /\ \A i \in 1..Len(components) :
              /\ expanded[1][i].key = components[i]
              /\ \A j \in 1..Len(flat_pars) :
                    PrefixedBy(flat_pars[j].key, components[i]) =>
                        \E c \in GridKeys, a \in {ArgLoc, ArgScale} :
                            /\ flat_pars[j].key = make_numpyro_name(components[i], c, Some(a))
                            /\ NestedHolds(expanded[1][i].val, c, a, flat_pars[j].val)
              /\ NestedSize(expanded[1][i].val) =
                    Cardinality({j \in 1..Len(flat_pars) :
                                    PrefixedBy(flat_pars[j].key, components[i])})
        /\ \A j \in 1..Len(flat_pars) :
              (\A i \in 1..Len(components) : ~PrefixedBy(flat_pars[j].key, components[i])) =>
                  /\ HasKey(expanded[1], flat_pars[j].key)
                  /\ Lookup(expanded[1], flat_pars[j].key) = flat_pars[j].val
        /\ Len(expanded[1]) =
              Len(components)
              + Cardinality({j \in 1..Len(flat_pars) :
                    \A i \in 1..Len(components) : ~PrefixedBy(flat_pars[j].key, components[i])})

\* the same, for the flat mappings that hold a key of every component
C13_ExpandWhenEveryComponentHasKeys ==
    (\A i \in 1..Len(components) :
        \E j \in 1..Len(flat_pars) : PrefixedBy(flat_pars[j].key, components[i]))
    => C13_MixtureExpand

-----------------------------------------------------------------------------
(* C16 *)

MixtureEvaluated == op = "mixture.evaluate_on_2d_grids"

\* the parameter slice of component n: the nested map of its prefixed keys
SliceOf(n) ==
    LET mine == SelectSeq(flat_pars, LAMBDA entry : PrefixedBy(entry.key, n))
    IN  IF Len(mine) = 0 THEN <<>> ELSE expand_numpyro_params(mine).val

\* the slice fixes every drawable argument, so the evaluation draws nothing
SliceComplete(n) == NumSites(SliceOf(n)) = 0

\* what component n's own evaluate_on_2d_grids returns for its slice
OwnEvaluation(n) ==
    evaluate_on_2d_grids(SliceOf(n), grids, grid_coord_names, x_coord_name, <<>>)

MixingWeights == Lookup(flat_pars, MixtureProbs)

\* the density, in halves, that a log-density stands for
DensityHalves(v) == IF v >= 0 THEN 2 * Pow2(v) ELSE -v

SameDict(d, e) == Range(d) = Range(e) /\ Len(d) = Len(e)

\* every surface of the mixture is the weighted log-sum-exp of the
\* components' own surfaces for that pair
TermsAreWeightedSums ==
    /\ KeySet(terms[1]) = KeySet(OwnEvaluation(components[1]).evals[1])
    /\ \A k \in KeySet(terms[1]) :
          DensityHalves(Lookup(terms[1], k)) =
              MixingWeights[1] * Pow2(Lookup(OwnEvaluation(components[1]).evals[1], k))
              + MixingWeights[2] * Pow2(Lookup(OwnEvaluation(components[2]).evals[1], k))

\* C16: with mixing weights [1.0, 0.0] a 2-component mixture returns, for every
\* requested pair, exactly the surface the first component's own
\* evaluate_on_2d_grids returns for its parameter slice; in general the surface
\* of a pair is the weighted log-sum-exp of the components' surfaces.
C16_MixtureReproducesFirst ==
    /\ (/\ MixtureEvaluated
        /\ HasKey(flat_pars, MixtureProbs) /\ MixingWeights = <<2, 0>>
        /\ SliceComplete(components[1])
        /\ OwnEvaluation(components[1]).status = "ok")
       => (/\ pc = "evaluated"
           /\ SameDict(terms[1], OwnEvaluation(components[1]).evals[1]))
    /\ (/\ MixtureEvaluated
        /\ HasKey(flat_pars, MixtureProbs)
        /\ \A i \in 1..2 : /\ SliceComplete(components[i])
                            /\ OwnEvaluation(components[i]).status = "ok")
       => (pc = "evaluated" /\ TermsAreWeightedSums)

\* the same two equalities, for the evaluations that return
C16_WhenEvaluationReturns ==
    (MixtureEvaluated /\ pc = "evaluated") =>
        /\ TermsAreWeightedSums
        /\ MixingWeights = <<2, 0>> =>
              SameDict(terms[1], OwnEvaluation(components[1]).evals[1])

-----------------------------------------------------------------------------
(* C15 *)

\* the fields of the component and of the mixture
ObjectFields ==
    <<name, coord_distributions, coord_parameters, conditional_data, coord_names,
      default_x_coord, components>>

\* the mappings and arguments the caller passes to the methods
CallerArguments == <<pars, data, flat_pars, grids, grid_coord_names, x_coord_name>>

\* C15: once the component is constructed no step of make_dists, _sample_order,
\* sample, expand_numpyro_params, evaluate_on_2d_grids or registration changes
\* a field of the component or of the mixture, or a mapping passed in by the
\* caller; and every _sample_order call returns the order the previous one
\* returned.
C15_NothingMutated ==
    [][/\ pc # "new" => UNCHANGED <<ObjectFields, CallerArguments>>
       /\ (pc' \in {"ordered", "returned"} /\ prev_order' # None)
             => sample_order' = prev_order'[1]]_vars

\* mixture.expand_numpyro_params has popped the keys of a component from its
\* copy after two _sample_order calls ordered a component with dependencies
C15_Witness ==
    /\ pc = "expanded"
    /\ prev_order # None
    /\ Len(prev_order[1]) >= 2
    /\ Len(CondData) > 0
    /\ \E j \in 1..Len(flat_pars) : PrefixedBy(flat_pars[j].key, NameS)

-----------------------------------------------------------------------------
(* C17 *)

\* the number of coordinates before the slice of the m-th member
RECURSIVE SizesBefore(_, _)
SizesBefore(ms, m) == IF m <= 1 THEN 0 ELSE ms[m - 1].size + SizesBefore(ms, m - 1)

\* every member accepts its own slice of x
EveryMemberAccepts(ms, x) ==
    \A m \in 1..Len(ms) : \A j \in 1..ms[m].size :
        InSupport(ms[m], j, x[SizesBefore(ms, m) + j])

\* C17: the concatenated constraint accepts a vector iff every member accepts
\* its own slice, the slices taken in declaration order with the members'
\* sizes; a batch is judged vector by vector; the test's vector inside every
\* support is accepted, and it is rejected with its first coordinate outside.
C17_ConcatenatedConstraint ==
    verdicts # None =>
        /\ Len(verdicts[1]) = Len(batch)
        /\ \A i \in 1..Len(batch) :
              verdicts[1][i] = EveryMemberAccepts(members, batch[i])
        /\ \A i \in 1..Len(batch) :
              members = TestConstraints =>
                  /\ batch[i] = TestInside => verdicts[1][i]
                  /\ batch[i] \in {TestOutside, TestHalves} => ~verdicts[1][i]

\* the batch of the test, inside and then outside, has been judged
C17_Witness ==
    /\ members = TestConstraints
    /\ batch = <<TestInside, TestOutside>>
    /\ verdicts = Some(<<TRUE, FALSE>>)

-----------------------------------------------------------------------------
(* C18 *)

\* the Gaussian mass between the bounds: cdf(high) - cdf(low)
GaussianMass(loc, scale, lo, hi) == NormalCdf(hi, loc, scale) - NormalCdf(lo, loc, scale)

RECURSIVE ProductOf(_)
ProductOf(row) == IF Len(row) = 0 THEN 1 ELSE row[1] * ProductOf(Tail(row))

\* on both sign paths the retained mass is cdf(high) - cdf(low), and the
\* offset of a component is the sum over d of the logs of its masses
MassesAreGaussian ==
    masses # None =>
        \A k \in 1..Len(locs) :
            /\ \A d \in 1..Len(low) :
                  masses[1][k][d] = GaussianMass(locs[k][d], scales, low[d], high[d])
            /\ log_diff_tail_probs[1][k] = ProductOf(masses[1][k])

\* C18: for every component k and dimension d with low_d < high_d the retained
\* mass computed at construction equals cdf(high) - cdf(low) on both sign
\* paths and is strictly positive, and the component's log-normalization
\* offset is the sum over d of the logs of these masses.
C18_RetainedMass ==
    /\ MassesAreGaussian
    /\ masses # None =>
          \A k \in 1..Len(locs) : \A d \in 1..Len(low) :
              low[d] < high[d] => masses[1][k][d] > 0

\* the same where a bound lies within two scales of the location
C18_WhenABoundIsNear ==
    /\ MassesAreGaussian
    /\ masses # None =>
          \A k \in 1..Len(locs) : \A d \in 1..Len(low) :
              (\E b \in {low[d], high[d]} :
                  b - locs[k][d] <= 2 * scales /\ locs[k][d] - b <= 2 * scales)
              => masses[1][k][d] > 0

====
